---- MODULE Spec2Model ----
(***************************************************************************)
(* Caseboard: a JSON-file-backed case store (src/app.py).                  *)
(*                                                                         *)
(* Strings are sequences of one-character strings, so that strip() and     *)
(* lower() are computed and not assumed.  A JSON value is a tagged record  *)
(* [t |-> tag, v |-> payload]; a JSON object is a function from key names  *)
(* to JSON values.  A Case in memory is a record with one field per model  *)
(* attribute that the store logic reads or writes; the purely descriptive  *)
(* attributes (county, judge, providers, ...) are carried along unchanged  *)
(* by every operation and are left out.                                    *)
(***************************************************************************)
EXTENDS Integers, Sequences, FiniteSets, TLC

\* ------------------------------------------------------------------ strings

UpperChars == <<"A","B","C","D","E","F","G","H","I","J","K","L","M",
                "N","O","P","Q","R","S","T","U","V","W","X","Y","Z">>
LowerChars == <<"a","b","c","d","e","f","g","h","i","j","k","l","m",
                "n","o","p","q","r","s","t","u","v","w","x","y","z">>

\* str.strip() removes these from both ends
Whitespace == {" ", "\t", "\n"}

\* the lower-case letter of each upper-case letter
LowerOf == [c \in {UpperChars[i] : i \in DOMAIN UpperChars} |->
               LowerChars[CHOOSE i \in DOMAIN UpperChars : UpperChars[i] = c]]

LowerChar(c) == IF c \in DOMAIN LowerOf THEN LowerOf[c] ELSE c

\* str.lower()
Lower(s) == [i \in DOMAIN s |-> LowerChar(s[i])]

RECURSIVE LStrip(_)
LStrip(s) ==
    IF s = <<>> THEN s
    ELSE IF s[1] \in Whitespace THEN LStrip(Tail(s)) ELSE s

RECURSIVE RStrip(_)
RStrip(s) ==
    IF s = <<>> THEN s
    ELSE IF s[Len(s)] \in Whitespace THEN RStrip(SubSeq(s, 1, Len(s) - 1)) ELSE s

\* str.strip()
Strip(s) == RStrip(LStrip(s))

\* ------------------------------------------------------------------ JSON values

JNull == [t |-> "null"]
JStr(s) == [t |-> "str", v |-> s]
JInt(n) == [t |-> "int", v |-> n]
JBool(b) == [t |-> "bool", v |-> b]
JList(l) == [t |-> "list", v |-> l]
JDict(d) == [t |-> "dict", v |-> d]
\* a datetime.date held in memory; it is written to the file as an ISO string
JDate(n) == [t |-> "date", v |-> n]
\* float("nan"), which json.load gives for the literal NaN
JNaN == [t |-> "nan"]

IsStr(x) == x.t = "str"
IsNull(x) == x.t = "null"
IsList(x) == x.t = "list"
IsDict(x) == x.t = "dict"

\* dict.get(key, default)
Get(d, key, default) == IF key \in DOMAIN d THEN d[key] ELSE default

\* a != b in Python: a NaN differs from every value, itself included
PyNe(a, b) == a # b \/ a = JNaN

\* Python truthiness of a JSON value
Truthy(x) ==
    CASE x.t = "null" -> FALSE
      [] x.t = "bool" -> x.v
      [] x.t = "int" -> x.v # 0
      [] x.t = "str" -> x.v # <<>>
      [] x.t = "list" -> x.v # <<>>
      [] x.t = "dict" -> DOMAIN x.v # {}
      [] OTHER -> TRUE

\* ------------------------------------------------------------------ enums

S_PreFilingStage == <<"P","r","e","-","f","i","l","i","n","g">>
S_Filed == <<"F","i","l","e","d">>
S_Discovery == <<"D","i","s","c","o","v","e","r","y">>
S_Pretrial == <<"P","r","e","t","r","i","a","l">>
S_Trial == <<"T","r","i","a","l">>
S_Closed == <<"C","l","o","s","e","d">>

S_Prospect == <<"P","r","o","s","p","e","c","t">>
S_PreFiling == <<"P","r","e","-","F","i","l","i","n","g">>
S_Active == <<"A","c","t","i","v","e">>
S_Settlement == <<"S","e","t","t","l","e","m","e","n","t">>
S_PostTrial == <<"P","o","s","t","-","T","r","i","a","l">>
S_Appeal == <<"A","p","p","e","a","l">>

S_NeedsAttention == <<"n","e","e","d","s","_","a","t","t","e","n","t","i","o","n">>
S_Waiting == <<"w","a","i","t","i","n","g">>
S_Empty == <<>>

Stage == {S_PreFilingStage, S_Filed, S_Discovery, S_Pretrial, S_Trial, S_Closed}
Status == {S_Prospect, S_PreFiling, S_Active, S_Settlement, S_PostTrial, S_Appeal}
Attention == {S_NeedsAttention, S_Waiting, S_Empty}

SPECIAL_STATUSES == {S_Prospect, S_Settlement, S_PostTrial, S_Appeal}

\* the tuple literal of _migrate_raw_case
MIGRATE_LOCKED == {S_Settlement, S_PostTrial, S_Appeal}

\* a dict is modelled by its set of <<key, value>> pairs
VALID_STAGES == {<<Lower(s), s>> : s \in Stage}
VALID_STATUSES == {<<Lower(s), s>> : s \in Status}

STAGE_SYNONYMS == {
    << <<"p","r","e"," ","f","i","l","i","n","g">>, S_PreFilingStage >>,
    << <<"p","r","e","f","i","l","i","n","g">>, S_PreFilingStage >>,
    << <<"p","r","e","-","f","i","l","e","d">>, S_PreFilingStage >> }

STATUS_SYNONYMS == {
    << <<"p","r","e","-","f","i","l","i","n","g">>, S_PreFiling >>,
    << <<"p","r","e"," ","f","i","l","i","n","g">>, S_PreFiling >>,
    << <<"p","r","e","f","i","l","i","n","g">>, S_PreFiling >>,
    << <<"p","r","e","-","f","i","l","l","i","n","g">>, S_PreFiling >>,
    << <<"p","r","e","-","f","i","l","l","i","n","g"," ">>, S_PreFiling >>,
    << <<"p","r","o","s","p","e","c","t">>, S_Prospect >>,
    << <<"a","c","t","i","v","e">>, S_Active >>,
    << <<"s","e","t","t","l","e","m","e","n","t">>, S_Settlement >>,
    << <<"p","o","s","t","-","t","r","i","a","l">>, S_PostTrial >>,
    << <<"p","o","s","t"," ","t","r","i","a","l">>, S_PostTrial >>,
    << <<"a","p","p","e","a","l">>, S_Appeal >> }

HasKey(table, key) == \E p \in table : p[1] = key
Lookup(table, key) == (CHOOSE p \in table : p[1] = key)[2]

\* the result of a normalizer: None, or Some(canonical value)
None == <<>>
Some(x) == <<x>>

\* normalize(text): None -> "", else text.strip(); x is a JSON value.
\* Only None and str have the method strip(); any other type raises.
normalize(x) == IF IsNull(x) THEN <<>> ELSE Strip(x.v)
normalize_raises(x) == ~IsNull(x) /\ ~IsStr(x)

normalize_stage(raw) ==
    LET value == normalize(raw)
        key == Lower(value)
    IN  IF value = <<>> THEN None
        ELSE IF HasKey(VALID_STAGES, key) THEN Some(Lookup(VALID_STAGES, key))
        ELSE IF HasKey(STAGE_SYNONYMS, key) THEN Some(Lookup(STAGE_SYNONYMS, key))
        ELSE None

\* normalize_status without value.lower()
normalize_status_exact(raw) ==
    LET value == normalize(raw)
        key == value
    IN  IF value = <<>> THEN None
        ELSE IF HasKey(VALID_STATUSES, key) THEN Some(Lookup(VALID_STATUSES, key))
        ELSE IF HasKey(STATUS_SYNONYMS, key) THEN Some(Lookup(STATUS_SYNONYMS, key))
        ELSE None

normalize_status(raw) ==
    LET value == normalize(raw)
        key == Lower(value)
    IN  IF value = <<>> THEN None
        ELSE IF HasKey(VALID_STATUSES, key) THEN Some(Lookup(VALID_STATUSES, key))
        ELSE IF HasKey(STATUS_SYNONYMS, key) THEN Some(Lookup(STATUS_SYNONYMS, key))
        ELSE None

\* ------------------------------------------------------------------ dates

Digits == <<"0","1","2","3","4","5","6","7","8","9">>

\* date.isoformat(), for the days 0..9 of one month: the strings order as the dates do
IsoDate(n) == <<"0", Digits[n + 1]>>
IsIsoDate(s) == \E n \in 0..9 : IsoDate(n) = s
ParseDate(s) == CHOOSE n \in 0..9 : IsoDate(n) = s

\* datetime.isoformat(), for the instants 0..9
IsoTime(n) == <<"T", Digits[n + 1]>>
IsIsoTime(s) == \E n \in 0..9 : IsoTime(n) = s
ParseTime(s) == CHOOSE n \in 0..9 : IsoTime(n) = s

\* ------------------------------------------------------------------ migration

\* d[key] = value on a dict
Put(d, key, value) == [k \in (DOMAIN d) \cup {key} |-> IF k = key THEN value ELSE d[k]]

\* one step of the deadline loop of _migrate_raw_case: item before the result rest
MigrateDeadline(item, due, desc, rest) ==
    <<(<<JDict([due_date |-> due, description |-> desc,
                resolved |-> JBool(Truthy(Get(item, "resolved", JBool(FALSE))))])>>)
          \o rest[1],
      rest[2] \/ PyNe(Get(item, "due_date", JNull), due)
              \/ PyNe(Get(item, "description", JNull), desc)>>

\* value or default
OrElse(x, default) == IF Truthy(x) THEN x ELSE default

RECURSIVE MigrateDeadlines(_)
\* the loop of _migrate_raw_case over dls: <<out_dls, changed>>
MigrateDeadlines(dls) ==
    IF dls = <<>> THEN <<(<<>>), FALSE>>
    ELSE IF ~IsDict(Head(dls)) THEN <<MigrateDeadlines(Tail(dls))[1], TRUE>>
    ELSE MigrateDeadline(Head(dls).v,
                         OrElse(Get(Head(dls).v, "due_date", JNull), JNull),
                         OrElse(Get(Head(dls).v, "description", JNull), JStr(<<>>)),
                         MigrateDeadlines(Tail(dls)))

\* _migrate_raw_case raises (AttributeError) where it calls strip() on a value
\* that is neither None nor a str
MigrateCaseRaises(d) ==
    \/ normalize_raises(Get(d, "stage", JStr(<<>>)))
    \/ normalize_raises(Get(d, "status", JStr(<<>>)))
    \/ LET status_norm == normalize_status(Get(d, "status", JStr(<<>>)))
           cn == Get(d, "case_number", JNull)
       IN  /\ (status_norm = None \/ status_norm[1] \notin MIGRATE_LOCKED)
           /\ Truthy(cn)
           /\ ~IsStr(cn)

\* the status _migrate_raw_case settles on
MigratedStatus(d) ==
    LET status_norm == normalize_status(Get(d, "status", JStr(<<>>)))
        cn_raw == Get(d, "case_number", JNull)
        cn == IF Truthy(cn_raw) THEN Strip(cn_raw.v) ELSE <<>>
    IN  IF status_norm = None \/ status_norm[1] \notin MIGRATE_LOCKED
        THEN (IF cn # <<>> THEN S_Active ELSE S_PreFiling)
        ELSE status_norm[1]

MigratedStageOf(stage_norm) == IF stage_norm = None THEN S_PreFilingStage ELSE stage_norm[1]

\* case[key] = value if the stored value differs
PutIf(changed, d, key, value) == IF changed THEN Put(d, key, value) ELSE d

\* the stage _migrate_raw_case settles on
MigratedStage(d) == MigratedStageOf(normalize_stage(Get(d, "stage", JStr(<<>>))))

MigratedAttentionChanged(d) ==
    Get(d, "attention", JNull) \notin {JStr(S_NeedsAttention), JStr(S_Waiting), JStr(S_Empty)}

\* dls, after "if not isinstance(dls, list): dls = []"
RawDeadlines(d) == IF IsList(Get(d, "deadlines", JNull)) THEN d["deadlines"].v ELSE <<>>

\* _migrate_raw_case(d) where it returns: [case |-> dict, changed |-> bool]
migrate_raw_case(d) ==
    [case |->
        PutIf(~IsList(Get(d, "focus_log", JNull)),
          Put(
            PutIf(MigratedAttentionChanged(d),
              PutIf(Get(d, "status", JNull) # JStr(MigratedStatus(d)),
                PutIf(Get(d, "stage", JNull) # JStr(MigratedStage(d)),
                      d, "stage", JStr(MigratedStage(d))),
                "status", JStr(MigratedStatus(d))),
              "attention", JStr(S_Empty)),
            "deadlines", JList(MigrateDeadlines(RawDeadlines(d))[1])),
          "focus_log", JList(<<>>)),
     changed |->
        \/ Get(d, "stage", JNull) # JStr(MigratedStage(d))
        \/ Get(d, "status", JNull) # JStr(MigratedStatus(d))
        \/ MigratedAttentionChanged(d)
        \/ ~IsList(Get(d, "deadlines", JNull))
        \/ MigrateDeadlines(RawDeadlines(d))[2]
        \/ ~IsList(Get(d, "focus_log", JNull))]

\* the step that puts the migrated case after the rest
ConsMigratedLast(m, rest) ==
    [err |-> FALSE, cases |-> rest.cases \o <<JDict(m.case)>>,
     changed |-> m.changed \/ rest.changed]

\* one step of the loop of _migrate_raw_file: the migrated case m before the rest
ConsMigrated(m, rest) ==
    [err |-> FALSE, cases |-> <<JDict(m.case)>> \o rest.cases,
     changed |-> m.changed \/ rest.changed]

\* one step of the loop of _migrate_raw_file: entry c before the result rest
MigrateStep(c, rest) ==
    IF ~IsDict(c) THEN [rest EXCEPT !.changed = TRUE]
    ELSE IF rest.err \/ MigrateCaseRaises(c.v)
         THEN [err |-> TRUE, cases |-> <<>>, changed |-> FALSE]
    ELSE ConsMigrated(migrate_raw_case(c.v), rest)

RECURSIVE MigrateCases(_)
\* the loop of _migrate_raw_file over cases: [err, cases, changed]
MigrateCases(cases) ==
    IF cases = <<>> THEN [err |-> FALSE, cases |-> <<>>, changed |-> FALSE]
    ELSE MigrateStep(Head(cases), MigrateCases(Tail(cases)))

\* raw.get("schema_version") != 1; in Python True == 1, so a stored true passes too
SchemaVersionChanged(raw) ==
    Get(raw, "schema_version", JNull) \notin {JInt(1), JBool(TRUE)}

\* _migrate_raw_file on a dict whose case loop gave m
MigratedFile(raw, m) ==
    IF m.err THEN [err |-> TRUE, changed |-> FALSE, raw |-> JNull]
    ELSE [err |-> FALSE,
          changed |-> ~IsList(Get(raw, "cases", JNull)) \/ m.changed
                      \/ SchemaVersionChanged(raw),
          raw |-> JDict(PutIf(SchemaVersionChanged(raw),
                              Put(raw, "cases", JList(m.cases)),
                              "schema_version", JInt(1)))]

\* _migrate_raw_file(raw) at time now: [err |-> it raised, raw |-> corrected, changed]
migrate_raw_file(raw, now) ==
    IF ~IsDict(raw)
    THEN [err |-> FALSE, changed |-> TRUE,
          raw |-> JDict([schema_version |-> JInt(1), saved_at |-> JStr(IsoTime(now)),
                         cases |-> JList(<<>>)])]
    ELSE MigratedFile(raw.v, MigrateCases(IF IsList(Get(raw.v, "cases", JNull))
                                          THEN raw.v["cases"].v ELSE <<>>))

\* ------------------------------------------------------------------ the model classes

Missing == [t |-> "missing"]
Field(d, key) == Get(d, key, Missing)

Ok(x) == [ok |-> TRUE, v |-> x]
Fail == [ok |-> FALSE, v |-> JNull]

\* a required str field
VStr(x) == IF x.t = "str" THEN Ok(x.v) ELSE Fail
\* a str field with a default
VStrDefault(x, default) == IF x.t = "missing" THEN Ok(default) ELSE VStr(x)
\* Optional[str] = None
VOptStr(x) == IF x.t \in {"missing", "null"} THEN Ok(JNull)
              ELSE IF x.t = "str" THEN Ok(x) ELSE Fail
\* Optional[date], from a date or an ISO string
VOptDate(x) == IF x.t = "null" THEN Ok(JNull)
               ELSE IF x.t = "date" THEN Ok(x)
               ELSE IF x.t = "str" /\ IsIsoDate(x.v) THEN Ok(JDate(ParseDate(x.v)))
               ELSE Fail
\* datetime, from an ISO string
VTime(x) == IF x.t = "str" /\ IsIsoTime(x.v) THEN Ok(ParseTime(x.v)) ELSE Fail
\* bool = False; the inputs of this model give a bool, 0 or 1 where one is expected
VBoolDefault(x) == CASE x.t = "missing" -> Ok(FALSE)
                     [] x.t = "bool" -> Ok(x.v)
                     [] x.t = "int" -> (IF x.v \in {0, 1} THEN Ok(x.v = 1) ELSE Fail)
                     [] x.t \in {"null", "list", "dict"} -> Fail

\* List[T]: every item validated by V
VList(x, V(_)) ==
    IF x.t = "missing" THEN Ok(<<>>)
    ELSE IF x.t # "list" THEN Fail
    ELSE IF \E i \in DOMAIN x.v : ~V(x.v[i]).ok THEN Fail
    ELSE Ok([i \in DOMAIN x.v |-> V(x.v[i]).v])

\* FocusEntry(**x)
VFocusEntry(x) ==
    IF x.t # "dict" THEN Fail
    ELSE LET at == VTime(Field(x.v, "at"))
             author == VStr(Field(x.v, "author"))
             text == VStr(Field(x.v, "text"))
         IN  IF at.ok /\ author.ok /\ text.ok
             THEN Ok([at |-> at.v, author |-> author.v, text |-> text.v])
             ELSE Fail

\* Deadline(**x): due_date has no default, so the key is required
VDeadline(x) ==
    IF x.t # "dict" THEN Fail
    ELSE LET due == IF "due_date" \in DOMAIN x.v THEN VOptDate(x.v["due_date"]) ELSE Fail
             desc == VStr(Field(x.v, "description"))
             res == VBoolDefault(Field(x.v, "resolved"))
         IN  IF due.ok /\ desc.ok /\ res.ok
             THEN Ok([due_date |-> due.v, description |-> desc.v, resolved |-> res.v])
             ELSE Fail

\* ColleagueTask(**x); the tasks of this model are stored with their id
VTask(x) ==
    IF x.t # "dict" THEN Fail
    ELSE LET id == VStr(Field(x.v, "id"))
             at == VTime(Field(x.v, "at"))
             author == VStr(Field(x.v, "author"))
             task == VStr(Field(x.v, "task"))
             reviewed == VBoolDefault(Field(x.v, "reviewed"))
             rat0 == Field(x.v, "reviewed_at")
             rat == IF rat0.t \in {"missing", "null"} THEN Ok(JNull)
                    ELSE IF VTime(rat0).ok THEN Ok(JInt(VTime(rat0).v)) ELSE Fail
         IN  IF id.ok /\ at.ok /\ author.ok /\ task.ok /\ reviewed.ok /\ rat.ok
             THEN Ok([id |-> id.v, at |-> at.v, author |-> author.v, task |-> task.v,
                      reviewed |-> reviewed.v, reviewed_at |-> rat.v])
             ELSE Fail

\* str(v) of a value that is not a str never names a status or an attention state
StrOf(x) == IF x.t = "str" THEN x.v ELSE <<"?">>

\* Case._coerce_status
coerce_status(x) ==
    IF x.t = "null" THEN S_PreFiling
    ELSE LET mapped == normalize_status(JStr(StrOf(x)))
         IN  IF mapped = None THEN S_PreFiling ELSE mapped[1]

\* Case._coerce_attention raises TypeError on an unhashable value (v in allowed)
coerce_attention_raises(x) == x.t \in {"list", "dict"}

coerce_attention(x) ==
    IF x.t = "str" /\ x.v \in Attention THEN x.v
    ELSE LET s == Lower(Strip(IF Truthy(x) THEN StrOf(x) ELSE <<>>))
         IN  IF s \in { <<"n","e","e","d","s">>, <<"n","e","e","d">>,
                        <<"n","e","e","d","s","-","a","t","t","e","n","t","i","o","n">>,
                        S_NeedsAttention }
             THEN S_NeedsAttention
             ELSE IF s \in { <<"w","a","i","t">>, S_Waiting } THEN S_Waiting
             ELSE S_Empty

\* Case(**d): [ok, v]; fresh is the uuid4 drawn for a case that comes without id
VCase(x, fresh) ==
    IF x.t # "dict" THEN Fail
    ELSE LET d == x.v
             id == VStrDefault(Field(d, "id"), fresh)
             client_name == VStr(Field(d, "client_name"))
             case_name == VStr(Field(d, "case_name"))
             case_type == VStr(Field(d, "case_type"))
             stage0 == VStrDefault(Field(d, "stage"), S_PreFilingStage)
             stage_ok == stage0.ok /\ stage0.v \in Stage
             status == IF "status" \in DOMAIN d THEN coerce_status(d["status"])
                       ELSE S_PreFiling
             att_ok == ~("attention" \in DOMAIN d /\ coerce_attention_raises(d["attention"]))
             attention == IF "attention" \in DOMAIN d /\ att_ok
                          THEN coerce_attention(d["attention"]) ELSE S_Empty
             paralegal == VStrDefault(Field(d, "paralegal"), <<>>)
             current_focus == VStrDefault(Field(d, "current_focus"), <<>>)
             focus_log == VList(Field(d, "focus_log"), VFocusEntry)
             deadlines == VList(Field(d, "deadlines"), VDeadline)
             colleague_tasks == VList(Field(d, "colleague_tasks"), VTask)
             case_number == VOptStr(Field(d, "case_number"))
             top_priority == VBoolDefault(Field(d, "top_priority"))
             archived == VBoolDefault(Field(d, "archived"))
             next_due == IF "next_due" \in DOMAIN d THEN VOptDate(d["next_due"]) ELSE Ok(JNull)
         IN  IF /\ id.ok /\ client_name.ok /\ case_name.ok /\ case_type.ok /\ stage_ok
                /\ att_ok /\ paralegal.ok /\ current_focus.ok /\ focus_log.ok
                /\ deadlines.ok /\ colleague_tasks.ok /\ case_number.ok
                /\ top_priority.ok /\ archived.ok /\ next_due.ok
             THEN Ok([id |-> id.v, client_name |-> client_name.v,
                      case_name |-> case_name.v, case_type |-> case_type.v,
                      stage |-> stage0.v, status |-> status, attention |-> attention,
                      paralegal |-> paralegal.v, current_focus |-> current_focus.v,
                      focus_log |-> focus_log.v, deadlines |-> deadlines.v,
                      colleague_tasks |-> colleague_tasks.v,
                      case_number |-> case_number.v, top_priority |-> top_priority.v,
                      archived |-> archived.v, next_due |-> next_due.v])
             ELSE Fail

\* the uuid4 a case gets when it is stored without id, by its position in the file
GenId(i) == <<"u", Digits[i + 1]>>

\* List[Case]: each entry validated, by its position
VCases(l) == [i \in DOMAIN l |-> VCase(l[i], GenId(i))]

\* CaseFile(**raw) with the entries of raw["cases"] validated: [ok, v]
VCaseFileOf(raw, checked) ==
    LET sv0 == Field(raw, "schema_version")
        sv_ok == sv0.t = "missing" \/ sv0.t = "int" \/ sv0.t = "bool"
        saved_at == VTime(Field(raw, "saved_at"))
        cases0 == Field(raw, "cases")
        cases_ok == \/ cases0.t = "missing"
                    \/ /\ cases0.t = "list"
                       /\ \A i \in DOMAIN checked : checked[i].ok
    IN  IF sv_ok /\ saved_at.ok /\ cases_ok
        THEN Ok([schema_version |-> IF sv0.t = "int" THEN sv0.v ELSE 1,
                 saved_at |-> saved_at.v,
                 cases |-> [i \in DOMAIN checked |-> checked[i].v]])
        ELSE Fail

\* CaseFile(**raw): [ok, v]
VCaseFile(raw) ==
    VCaseFileOf(raw, IF Field(raw, "cases").t = "list" THEN VCases(raw["cases"].v) ELSE <<>>)

\* ------------------------------------------------------------------ model_dump_json

DumpOptDate(x) == IF x.t = "date" THEN JStr(IsoDate(x.v)) ELSE JNull

DumpFocusEntry(e) ==
    JDict([at |-> JStr(IsoTime(e.at)), author |-> JStr(e.author), text |-> JStr(e.text)])

DumpDeadline(d) ==
    JDict([due_date |-> DumpOptDate(d.due_date), description |-> JStr(d.description),
           resolved |-> JBool(d.resolved)])

DumpTask(k) ==
    JDict([id |-> JStr(k.id), at |-> JStr(IsoTime(k.at)), author |-> JStr(k.author),
           task |-> JStr(k.task), reviewed |-> JBool(k.reviewed),
           reviewed_at |-> IF k.reviewed_at.t = "int" THEN JStr(IsoTime(k.reviewed_at.v))
                           ELSE JNull])

DumpCase(c) ==
    JDict([id |-> JStr(c.id), client_name |-> JStr(c.client_name),
           case_name |-> JStr(c.case_name), case_type |-> JStr(c.case_type),
           stage |-> JStr(c.stage), status |-> JStr(c.status),
           attention |-> JStr(c.attention), paralegal |-> JStr(c.paralegal),
           current_focus |-> JStr(c.current_focus),
           focus_log |-> JList([i \in DOMAIN c.focus_log |-> DumpFocusEntry(c.focus_log[i])]),
           deadlines |-> JList([i \in DOMAIN c.deadlines |-> DumpDeadline(c.deadlines[i])]),
           colleague_tasks |->
               JList([i \in DOMAIN c.colleague_tasks |-> DumpTask(c.colleague_tasks[i])]),
           case_number |-> c.case_number, top_priority |-> JBool(c.top_priority),
           archived |-> JBool(c.archived), next_due |-> DumpOptDate(c.next_due)])

DumpCaseFile(m) ==
    JDict([schema_version |-> JInt(m.schema_version), saved_at |-> JStr(IsoTime(m.saved_at)),
           cases |-> JList([i \in DOMAIN m.cases |-> DumpCase(m.cases[i])])])

\* ------------------------------------------------------------------ recompute

RECURSIVE Min(_)
\* min(future) of a non-empty list of dates
Min(l) == IF Len(l) = 1 THEN l[1]
          ELSE LET m == Min(Tail(l)) IN IF m < l[1] THEN m ELSE l[1]

RECURSIVE Future(_)
\* [d.due_date for d in case.deadlines if (not d.resolved) and (d.due_date is not None)]
Future(dls) ==
    IF dls = <<>> THEN <<>>
    ELSE IF (~Head(dls).resolved) /\ Head(dls).due_date # JNull
         THEN <<Head(dls).due_date.v>> \o Future(Tail(dls))
         ELSE Future(Tail(dls))

\* the case number tested without strip()
has_case_number_raw(c) == Truthy(c.case_number)

has_case_number(c) ==
    Strip(IF Truthy(c.case_number) THEN c.case_number.v ELSE <<>>) # <<>>

\* the first date of the list taken for its earliest
next_due_first(future) == IF future # <<>> THEN JDate(future[1]) ELSE JNull

\* min(future) if future else None
next_due_of(future) == IF future # <<>> THEN JDate(Min(future)) ELSE JNull

\* the oldest focus entry taken for the latest
current_focus_first(c) ==
    IF c.focus_log # <<>> THEN c.focus_log[1].text ELSE c.current_focus

\* case.focus_log[-1].text if case.focus_log, else what it was
current_focus_of(c) ==
    IF c.focus_log # <<>> THEN c.focus_log[Len(c.focus_log)].text ELSE c.current_focus

status_of(c) ==
    IF (~c.archived) /\ c.status \notin SPECIAL_STATUSES
    THEN (IF has_case_number(c) THEN S_Active ELSE S_PreFiling)
    ELSE c.status

recompute(c) ==
    [c EXCEPT !.next_due = next_due_of(Future(c.deadlines)),
              !.current_focus = current_focus_of(c),
              !.status = status_of(c)]

\* ------------------------------------------------------------------ storage

\* the content of data/cases.json: no file, a text json.load rejects, or a document
Absent == [t |-> "absent"]
Garbage == [t |-> "garbage"]
Doc(j) == [t |-> "json", v |-> j]

\* save(model) at time now: the new content of data/cases.json
save(model, now) == Doc(DumpCaseFile([model EXCEPT !.saved_at = now]))

\* the end of load(): the validated model, written back if anything changed
Loaded(d, now, model, changed) ==
    [err |-> FALSE, model |-> model, disk |-> IF changed THEN save(model, now) ELSE d]

LoadFailed(d) == [err |-> TRUE, model |-> JNull, disk |-> d]

\* load() after the migration m: v is CaseFile(**raw), v2 the last resort
LoadValidated(d, now, m, v, v2) ==
    IF v.ok THEN Loaded(d, now, v.v, m.changed)
    ELSE IF v2.ok THEN Loaded(d, now, v2.v, TRUE)
    ELSE LoadFailed(d)

LoadMigrated(d, now, m) ==
    IF m.err THEN LoadFailed(d)
    ELSE LoadValidated(d, now, m, VCaseFile(m.raw.v),
                       VCaseFile([schema_version |-> JInt(1),
                                  saved_at |-> JStr(IsoTime(now)),
                                  cases |-> Get(m.raw.v, "cases", JList(<<>>))]))

\* load() at time now: [err |-> it raised, model |-> what it returns,
\*                      disk |-> data/cases.json afterwards]
load(d, now) ==
    IF d.t = "absent"
    THEN [err |-> FALSE, disk |-> d,
          model |-> [schema_version |-> 1, saved_at |-> now, cases |-> <<>>]]
    ELSE IF d.t = "garbage" THEN LoadFailed(d)
    ELSE LoadMigrated(d, now, migrate_raw_file(d.v, now))

\* the cases of a stored document, as stored
StoredCases(d) == IF d.t = "json" THEN d.v.v["cases"].v ELSE <<>>

\* ------------------------------------------------------------------ handlers
\* Each handler is a function of the stored file, the time and the request:
\* [disk |-> data/cases.json afterwards, code |-> HTTP status, out |-> response body].
\* A request body that FastAPI cannot validate is answered 422 before the handler runs.

Reply(d, code, out) == [disk |-> d, code |-> code, out |-> out]

\* for i, c in enumerate(model.cases): if c.id == case_id -- the first match, or 0
FirstIdx(cases, case_id) ==
    IF \E i \in DOMAIN cases : cases[i].id = case_id
    THEN CHOOSE i \in DOMAIN cases :
            /\ cases[i].id = case_id
            /\ \A j \in DOMAIN cases : cases[j].id = case_id => i <= j
    ELSE 0

IdPool == [k \in 1..9 |-> <<"c", Digits[k + 1]>>]
TaskIdPool == [k \in 1..9 |-> <<"t", Digits[k + 1]>>]

\* uuid4(): an id no case of the model has
FreshId(cases) ==
    IdPool[CHOOSE k \in DOMAIN IdPool :
              /\ \A i \in DOMAIN cases : cases[i].id # IdPool[k]
              /\ \A j \in 1..(k - 1) : \E i \in DOMAIN cases : cases[i].id = IdPool[j]]

\* uuid4(): an id no task of the model has
FreshTaskId(cases) ==
    LET used == {cases[i].colleague_tasks[j].id :
                    <<i, j>> \in {p \in (DOMAIN cases) \X (1..9) :
                                     p[2] \in DOMAIN cases[p[1]].colleague_tasks}}
    IN  TaskIdPool[CHOOSE k \in DOMAIN TaskIdPool :
                      /\ TaskIdPool[k] \notin used
                      /\ \A j \in 1..(k - 1) : TaskIdPool[j] \in used]

\* a body whose attention makes Case._coerce_attention raise
AttentionRaises(body) ==
    body.t = "dict" /\ "attention" \in DOMAIN body.v
        /\ coerce_attention_raises(body.v["attention"])

\* model.cases[i] = case; save(model); return case
StoreCase(L, now, i, case) ==
    Reply(save([L.model EXCEPT !.cases[i] = case], now), 200, case)

\* the loop "for i, c in enumerate(model.cases): if c.id == case_id" of the
\* handlers, with Change(c) what the handler stores for c
FindAndStore(L, now, i, Change(_)) ==
    IF i = 0 THEN Reply(L.disk, 404, JNull)
    ELSE StoreCase(L, now, i, Change(L.model.cases[i]))

GetCasesLoaded(d, L) ==
    IF L.err THEN Reply(d, 500, JNull)
    ELSE Reply(L.disk, 200,
               JList([i \in DOMAIN L.model.cases |-> recompute(L.model.cases[i])]))

\* GET /api/cases
api_get_cases(d, now) == GetCasesLoaded(d, load(d, now))

GetCaseLoaded(d, L, i) ==
    IF L.err THEN Reply(d, 500, JNull)
    ELSE IF i = 0 THEN Reply(L.disk, 404, JNull)
    ELSE Reply(L.disk, 200, recompute(L.model.cases[i]))

\* GET /api/cases/{case_id}
api_get_case(d, now, case_id) ==
    LET L == load(d, now)
    IN  GetCaseLoaded(d, L, IF L.err THEN 0 ELSE FirstIdx(L.model.cases, case_id))

\* case = recompute(case); model.cases.append(case); save(model)
AppendCase(L, now, case) ==
    Reply(save([L.model EXCEPT !.cases = Append(@, case)], now), 200, case)

CreateLoaded(d, now, L, body) ==
    IF L.err THEN Reply(d, 500, JNull)
    ELSE AppendCase(L, now, recompute(VCase(body, FreshId(L.model.cases)).v))

\* POST /api/cases
api_create_case(d, now, body) ==
    IF AttentionRaises(body) THEN Reply(d, 500, JNull)
    ELSE IF ~VCase(body, IdPool[1]).ok THEN Reply(d, 422, JNull)
    ELSE CreateLoaded(d, now, load(d, now), body)

\* the update without data["id"] = c.id
updated_case_patch_id(c, patch) == recompute(patch)

\* the record api_update_case stores for case c and the validated body patch
updated_case(c, patch) == recompute([patch EXCEPT !.id = c.id])

UpdateLoaded(d, now, L, case_id, patch) ==
    IF L.err THEN Reply(d, 500, JNull)
    ELSE FindAndStore(L, now, FirstIdx(L.model.cases, case_id),
                      LAMBDA c : updated_case(c, patch))

\* PUT /api/cases/{case_id}
api_update_case(d, now, case_id, body) ==
    IF AttentionRaises(body) THEN Reply(d, 500, JNull)
    ELSE IF ~VCase(body, IdPool[1]).ok THEN Reply(d, 422, JNull)
    ELSE UpdateLoaded(d, now, load(d, now), case_id, VCase(body, IdPool[1]).v)

\* list.pop(i)
Pop(l, i) == SubSeq(l, 1, i - 1) \o SubSeq(l, i + 1, Len(l))

DeleteAt(L, now, i) ==
    IF i = 0 THEN Reply(L.disk, 404, JNull)
    ELSE Reply(save([L.model EXCEPT !.cases = Pop(@, i)], now), 204, JNull)

DeleteLoaded(d, now, L, case_id) ==
    IF L.err THEN Reply(d, 500, JNull)
    ELSE DeleteAt(L, now, FirstIdx(L.model.cases, case_id))

\* DELETE /api/cases/{case_id}
api_delete_case(d, now, case_id) == DeleteLoaded(d, now, load(d, now), case_id)

OnCaseLoaded(d, now, L, case_id, Change(_)) ==
    IF L.err THEN Reply(d, 500, JNull)
    ELSE FindAndStore(L, now, FirstIdx(L.model.cases, case_id), Change)

\* the common shape of the field handlers: load, find, store Change(c), save
OnCase(d, now, case_id, Change(_)) == OnCaseLoaded(d, now, load(d, now), case_id, Change)

\* c.focus_log.append(entry); recompute(c)
add_focus(c, entry) == recompute([c EXCEPT !.focus_log = Append(@, entry)])

\* POST /api/cases/{case_id}/focus
api_add_focus(d, now, case_id, body) ==
    IF ~VFocusEntry(body).ok THEN Reply(d, 422, JNull)
    ELSE OnCase(d, now, case_id, LAMBDA c : add_focus(c, VFocusEntry(body).v))

\* c.deadlines = deadlines; recompute(c)
\* the deadline replacement without its recompute
set_deadlines_stale(c, deadlines) == [c EXCEPT !.deadlines = deadlines]

set_deadlines(c, deadlines) == recompute([c EXCEPT !.deadlines = deadlines])

\* POST /api/cases/{case_id}/deadlines
api_set_deadlines(d, now, case_id, body) ==
    IF ~VList(body, VDeadline).ok THEN Reply(d, 422, JNull)
    ELSE OnCase(d, now, case_id, LAMBDA c : set_deadlines(c, VList(body, VDeadline).v))

\* c.attention = state; recompute(c)
set_attention(c, state) == recompute([c EXCEPT !.attention = state])

\* POST /api/cases/{case_id}/attention/{state}
api_set_attention(d, now, case_id, state) ==
    IF state \notin Attention THEN Reply(d, 422, JNull)
    ELSE OnCase(d, now, case_id, LAMBDA c : set_attention(c, state))

\* the flag after state in on / off / toggle
Switch(old, state) == IF state = "toggle" THEN ~old ELSE state = "on"

set_priority(c, state) == recompute([c EXCEPT !.top_priority = Switch(@, state)])

\* POST /api/cases/{case_id}/priority/{state}
api_set_priority(d, now, case_id, state) ==
    IF state \notin {"on", "off", "toggle"} THEN Reply(d, 422, JNull)
    ELSE OnCase(d, now, case_id, LAMBDA c : set_priority(c, state))

set_archive(c, state) == recompute([c EXCEPT !.archived = Switch(@, state)])

\* POST /api/cases/{case_id}/archive/{state}
api_set_archive(d, now, case_id, state) ==
    IF state \notin {"on", "off", "toggle"} THEN Reply(d, 422, JNull)
    ELSE OnCase(d, now, case_id, LAMBDA c : set_archive(c, state))

allowed_authors == { <<"W","B">>, <<"N","C">>, <<"T","G">>, <<"C","S">>, <<"S","J">> }

\* ColleagueTask(at=utcnow(), author=..., task=request.task.strip(), reviewed=False)
NewTask(id, now, request) ==
    [id |-> id, at |-> now, author |-> request.author, task |-> Strip(request.task),
     reviewed |-> FALSE, reviewed_at |-> JNull]

add_task(c, new_task) == recompute([c EXCEPT !.colleague_tasks = Append(@, new_task)])

AddTaskLoaded(d, now, L, case_id, request) ==
    IF L.err THEN Reply(d, 500, JNull)
    ELSE FindAndStore(L, now, FirstIdx(L.model.cases, case_id),
             LAMBDA c : add_task(c, NewTask(FreshTaskId(L.model.cases), now, request)))

\* POST /api/cases/{case_id}/colleague-tasks, request = [task, author]
add_colleague_task(d, now, case_id, request) ==
    IF request.author \notin allowed_authors THEN Reply(d, 400, JNull)
    ELSE AddTaskLoaded(d, now, load(d, now), case_id, request)

\* task.reviewed = True; task.reviewed_at = utcnow(); recompute(c)
review_task(c, j, now) ==
    recompute([c EXCEPT !.colleague_tasks[j] =
                  [@ EXCEPT !.reviewed = TRUE, !.reviewed_at = JInt(now)]])

ReviewAt(L, now, i, task_id) ==
    IF i = 0 THEN Reply(L.disk, 404, JNull)
    ELSE IF FirstIdx(L.model.cases[i].colleague_tasks, task_id) = 0
         THEN Reply(L.disk, 404, JNull)
    ELSE Reply(save([L.model EXCEPT !.cases[i] =
                        review_task(@, FirstIdx(@.colleague_tasks, task_id), now)], now),
               200, JNull)

ReviewLoaded(d, now, L, case_id, task_id) ==
    IF L.err THEN Reply(d, 500, JNull)
    ELSE ReviewAt(L, now, FirstIdx(L.model.cases, case_id), task_id)

\* POST /api/cases/{case_id}/colleague-tasks/{task_id}/review
review_colleague_task(d, now, case_id, task_id) ==
    ReviewLoaded(d, now, load(d, now), case_id, task_id)

\* ------------------------------------------------------------------ CSV import
\* A CSV text as csv.DictReader reads it: [header |-> the names of the first line,
\* rows |-> the cells of each further non-blank line].

K_client_name == <<"c","l","i","e","n","t","_","n","a","m","e">>
K_case_name == <<"c","a","s","e","_","n","a","m","e">>
K_case_type == <<"c","a","s","e","_","t","y","p","e">>
K_stage == <<"s","t","a","g","e">>
K_status == <<"s","t","a","t","u","s">>
K_paralegal == <<"p","a","r","a","l","e","g","a","l">>
K_current_focus == <<"c","u","r","r","e","n","t","_","f","o","c","u","s">>
K_case_number == <<"c","a","s","e","_","n","u","m","b","e","r">>
S_Other == <<"O","t","h","e","r">>

RECURSIVE StripNames(_)
\* [name.strip() for name in reader.fieldnames if name]
StripNames(header) ==
    IF header = <<>> THEN <<>>
    ELSE IF Head(header) = <<>> THEN StripNames(Tail(header))
    ELSE <<Strip(Head(header))>> \o StripNames(Tail(header))

\* cell(row, key): lookup maps the lower-cased name to the last column so named,
\* and a line shorter than the header leaves its last columns None
cell(fieldnames, row, key) ==
    LET hits == {i \in DOMAIN fieldnames : Lower(fieldnames[i]) = key}
        last == CHOOSE i \in hits : \A j \in hits : j <= i
    IN  IF hits = {} THEN <<>>
        ELSE IF last \in DOMAIN row THEN Strip(row[last]) ELSE <<>>

StrOrEmpty(x) == IF Truthy(x) THEN x.v ELSE <<>>

\* the lookup that tries the names before the number
find_existing_names_first(cases, case_number, client_name, case_name) ==
    LET number_key == Lower(StrOrEmpty(case_number))
        by_number == {i \in DOMAIN cases :
                         number_key # <<>> /\ Lower(StrOrEmpty(cases[i].case_number)) = number_key}
        by_name == {i \in DOMAIN cases :
                       /\ Lower(cases[i].client_name) = Lower(client_name)
                       /\ Lower(cases[i].case_name) = Lower(case_name)}
        First(S) == CHOOSE i \in S : \A j \in S : i <= j
    IN  IF by_name # {} THEN First(by_name)
        ELSE IF by_number # {} THEN First(by_number)
        ELSE 0

\* find_existing: the index of the matching case, or 0
find_existing(cases, case_number, client_name, case_name) ==
    LET number_key == Lower(StrOrEmpty(case_number))
        by_number == {i \in DOMAIN cases :
                         number_key # <<>> /\ Lower(StrOrEmpty(cases[i].case_number)) = number_key}
        by_name == {i \in DOMAIN cases :
                       /\ Lower(cases[i].client_name) = Lower(client_name)
                       /\ Lower(cases[i].case_name) = Lower(case_name)}
        First(S) == CHOOSE i \in S : \A j \in S : i <= j
    IN  IF by_number # {} THEN First(by_number)
        ELSE IF by_name # {} THEN First(by_name)
        ELSE 0

\* status_value and status_value in SPECIAL_STATUSES
IsSpecial(status_value) == status_value # None /\ status_value[1] \in SPECIAL_STATUSES

\* the record the import stores for a row that matches the case existing:
\* apply_case_updates skips the updates that are None
import_update(existing, client_name, case_name, case_type, paralegal, current_focus, case_number, stage_value, status_value) ==
    recompute([existing EXCEPT
        !.client_name = client_name,
        !.case_name = case_name,
        !.case_type = IF case_type # <<>> THEN case_type ELSE @,
        !.paralegal = IF paralegal # <<>> THEN paralegal ELSE @,
        !.current_focus = IF current_focus # <<>> THEN current_focus ELSE @,
        !.case_number = IF Truthy(case_number) THEN case_number ELSE @,
        !.stage = IF stage_value # None THEN stage_value[1] ELSE @,
        !.status = IF IsSpecial(status_value) THEN status_value[1] ELSE @])

\* the record the import stores for a row that matches no case
import_new(id, client_name, case_name, case_type, paralegal, current_focus, case_number, stage_value, status_value) ==
    recompute([id |-> id, client_name |-> client_name, case_name |-> case_name,
               case_type |-> case_type,
               stage |-> IF stage_value = None THEN S_PreFilingStage ELSE stage_value[1],
               status |-> IF IsSpecial(status_value) THEN status_value[1] ELSE S_PreFiling,
               attention |-> S_Empty, paralegal |-> paralegal,
               current_focus |-> current_focus, focus_log |-> <<>>, deadlines |-> <<>>,
               colleague_tasks |-> <<>>, case_number |-> case_number,
               top_priority |-> FALSE, archived |-> FALSE, next_due |-> JNull])

\* cell(row, "case_number") or None
CellOrNone(x) == IF x # <<>> THEN JStr(x) ELSE JNull
\* cell(row, "case_type") or "Other"
CellOr(x, default) == IF x # <<>> THEN x ELSE default

\* the row loop that skips a row without names and reports nothing
ImportRowSilent(acc, row_index, client_name, case_name, case_type, paralegal, current_focus, case_number, stage_value, status_value, existing_index) ==
    IF client_name = <<>> \/ case_name = <<>>
    THEN acc
    ELSE IF existing_index # 0
    THEN [acc EXCEPT
             !.cases[existing_index] =
                 import_update(@, client_name, case_name, case_type, paralegal,
                               current_focus, case_number, stage_value, status_value),
             !.updated = @ + 1]
    ELSE [acc EXCEPT
             !.cases = Append(@,
                 import_new(FreshId(acc.cases), client_name, case_name, case_type,
                            paralegal, current_focus, case_number, stage_value,
                            status_value)),
             !.added = @ + 1]

\* the body of the row loop for one row, its cells read:
\* acc = [cases, added, updated, errors]
ImportRow(acc, row_index, client_name, case_name, case_type, paralegal, current_focus, case_number, stage_value, status_value, existing_index) ==
    IF client_name = <<>> \/ case_name = <<>>
    THEN [acc EXCEPT !.errors = Append(@, row_index)]
    ELSE IF existing_index # 0
    THEN [acc EXCEPT
             !.cases[existing_index] =
                 import_update(@, client_name, case_name, case_type, paralegal,
                               current_focus, case_number, stage_value, status_value),
             !.updated = @ + 1]
    ELSE [acc EXCEPT
             !.cases = Append(@,
                 import_new(FreshId(acc.cases), client_name, case_name, case_type,
                            paralegal, current_focus, case_number, stage_value,
                            status_value)),
             !.added = @ + 1]

ReadRow(acc, row_index, fieldnames, row) ==
    ImportRow(acc, row_index,
              cell(fieldnames, row, K_client_name),
              cell(fieldnames, row, K_case_name),
              CellOr(cell(fieldnames, row, K_case_type), S_Other),
              cell(fieldnames, row, K_paralegal),
              cell(fieldnames, row, K_current_focus),
              CellOrNone(cell(fieldnames, row, K_case_number)),
              normalize_stage(JStr(cell(fieldnames, row, K_stage))),
              normalize_status(JStr(cell(fieldnames, row, K_status))),
              find_existing(acc.cases, CellOrNone(cell(fieldnames, row, K_case_number)),
                            cell(fieldnames, row, K_client_name),
                            cell(fieldnames, row, K_case_name)))

RECURSIVE ImportRows(_, _, _, _)
\* for row_index, row in enumerate(reader, start=2)
ImportRows(fieldnames, rows, row_index, acc) ==
    IF rows = <<>> THEN acc
    ELSE ImportRows(fieldnames, Tail(rows), row_index + 1,
                    ReadRow(acc, row_index, fieldnames, Head(rows)))

\* if added or updated: save(model); return the summary
ImportDone(L, now, acc) ==
    IF acc.added > 0 \/ acc.updated > 0
    THEN Reply(save([L.model EXCEPT !.cases = acc.cases], now), 200,
               [added |-> acc.added, updated |-> acc.updated, errors |-> acc.errors])
    ELSE Reply(L.disk, 200,
               [added |-> acc.added, updated |-> acc.updated, errors |-> acc.errors])

ImportLoaded(d, now, L, fieldnames, rows) ==
    IF L.err THEN Reply(d, 500, JNull)
    ELSE ImportDone(L, now,
             ImportRows(fieldnames, rows, 2,
                        [cases |-> L.model.cases, added |-> 0, updated |-> 0,
                         errors |-> <<>>]))

\* the required columns the header lacks
MissingColumns(fieldnames) ==
    {K_client_name, K_case_name, K_case_type}
        \ {Lower(fieldnames[i]) : i \in DOMAIN fieldnames}

\* the import that loads the store before it looks at the header
import_cases_from_csv_load_first(d, now, csv) ==
    IF csv.header = <<>> \/ MissingColumns(StripNames(csv.header)) # {}
    THEN Reply(load(d, now).disk, 400, JNull)
    ELSE ImportLoaded(d, now, load(d, now), StripNames(csv.header), csv.rows)

\* import_cases_from_csv behind POST /api/cases/import: ValueError is answered 400;
\* the error of row n is the text "Row n: missing client_name or case_name"
import_cases_from_csv(d, now, csv) ==
    IF csv.header = <<>> \/ MissingColumns(StripNames(csv.header)) # {}
    THEN Reply(d, 400, JNull)
    ELSE ImportLoaded(d, now, load(d, now), StripNames(csv.header), csv.rows)

\* ------------------------------------------------------------------ the store

\* the requests of one behaviour
MaxOps == 3

VARIABLES
    disk,       \* the content of data/cases.json
    nops,       \* the number of requests served so far; request n is served at time n
    resp,       \* the last request and its answer: [op, code, out]
    rc_case,    \* the Case handed to recompute
    rc_out,     \* what recompute returned for it, None before the call
    platform,   \* the operating system save() runs on: "posix" or "nt"
    dir,        \* the directory data/: file name -> inode number, 0 for no entry
    inode,      \* inode number -> the chunks of the file, in order
    wr,         \* each thread running save(): [pc, ver, fd, off, n]
    failed,     \* the threads whose save() raised
    crashed,    \* the process was killed
    seen,       \* what the last reader of data/cases.json got
    backups,    \* data/backups/: stamp -> the chunks of cases-<stamp>.json
    clock,      \* the UTC second
    copy_raised,\* the threads whose backup copy raised
    content,    \* version -> the changes a file of that version holds
    arg,        \* the input of the function under check, None where there is none
    CACHE,      \* backend/cfb2.py: the payload in memory, [generated_at, prev, next, _stamp]
    ODDS_IDX,   \* _ODDS_IDX: the games the last odds answer priced
    ODDS_LAST_FETCH, \* _ODDS_LAST_FETCH: the time of the last odds answer, or None
    time,       \* time.time(), in seconds
    fallback    \* CFB_USE_FALLBACK and static/data/cfb.json: [enabled, file]

storeVars == <<disk, nops, resp>>
rcVars == <<rc_case, rc_out>>
fsVars == <<platform, dir, inode, wr, failed, crashed, seen, backups, clock, copy_raised, content>>
fnVars == <<arg>>
cfbVars == <<CACHE, ODDS_IDX, ODDS_LAST_FETCH, time, fallback>>
vars == <<storeVars, rcVars, fsVars, fnVars, cfbVars>>

\* ---- the requests the clients of this model send

N_a == <<"a">>
N_A == <<"A">>
N_b == <<"b">>
N_z == <<"z">>
T_PI == <<"P","I">>

CaseBody(st, cn, ar) ==
    JDict([client_name |-> JStr(N_a), case_name |-> JStr(N_b), case_type |-> JStr(T_PI),
           status |-> JStr(st), case_number |-> cn, archived |-> JBool(ar)])

\* a full record as a client sends it back, with the id of the first case created
CaseBodyWithId == JDict(Put(CaseBody(S_PostTrial, JNull, FALSE).v, "id", JStr(IdPool[1])))

CaseBodies ==
    {CaseBody(S_Prospect, JNull, FALSE), CaseBody(S_Prospect, JStr(<<"7">>), FALSE),
     CaseBody(S_Settlement, JNull, FALSE), CaseBody(S_Active, JNull, FALSE),
     CaseBody(S_PreFiling, JStr(<<"7">>), FALSE), CaseBody(S_Active, JNull, TRUE),
     CaseBody(S_Appeal, JStr(<<" ">>), TRUE), CaseBodyWithId}

FocusBodies ==
    {JDict([at |-> JStr(IsoTime(0)), author |-> JStr(<<"W","B">>), text |-> JStr(tx)]) :
        tx \in {<<"f","1">>, <<"f","2">>}}

DL(due, resolved) ==
    JDict([due_date |-> due, description |-> JStr(<<"x">>), resolved |-> JBool(resolved)])

DeadlineBodies ==
    {JList(<<>>),
     JList(<<DL(JStr(IsoDate(5)), FALSE), DL(JStr(IsoDate(3)), FALSE)>>),
     JList(<<DL(JStr(IsoDate(1)), TRUE), DL(JNull, FALSE), DL(JStr(IsoDate(5)), FALSE)>>)}

AttentionInputs == {S_Waiting, S_Empty}
SwitchInputs == {"on", "off", "toggle"}
TaskRequests == {[task |-> <<" ","k">>, author |-> <<"N","C">>]}

CsvHeader == <<K_client_name, K_case_name, K_case_type, K_case_number, K_current_focus>>
CsvDocs ==
    {[header |-> CsvHeader, rows |-> << <<N_A, N_b, <<>>, <<"7">>, <<>> >> >>],
     [header |-> CsvHeader,
      rows |-> << <<N_z, N_b, T_PI, <<>>, <<"g">> >>, << <<>>, N_b, T_PI, <<>>, <<>> >> >>]}

\* the case ids a client addresses: the first two uuid4() gives, in the store or not
KnownIds == {IdPool[1], IdPool[2]}
KnownTaskIds == {TaskIdPool[1], TaskIdPool[2]}

\* the parts of the state a specification does not use stay as they start
StoreIdle == disk = Absent /\ nops = 0 /\ resp = [op |-> "none", code |-> 0, out |-> JNull]
RcIdle == rc_case = None /\ rc_out = None
FsIdle ==
    /\ platform = "posix" /\ dir = <<>> /\ inode = <<>> /\ wr = <<>> /\ failed = {}
    /\ crashed = FALSE /\ seen = None /\ backups = <<>> /\ clock = 0
    /\ copy_raised = {} /\ content = <<>>
FnIdle == arg = None
CfbIdle ==
    /\ CACHE = None /\ ODDS_IDX = {} /\ ODDS_LAST_FETCH = None /\ time = 0
    /\ fallback = None

\* an empty store: no data/cases.json yet, no request served
Init == StoreIdle /\ RcIdle /\ FsIdle /\ FnIdle /\ CfbIdle

Serve(op, r) ==
    /\ nops < MaxOps
    /\ \E x \in {r} :
          /\ disk' = x.disk
          /\ resp' = [op |-> op, code |-> x.code, out |-> x.out]
    /\ nops' = nops + 1
    /\ UNCHANGED <<rcVars, fsVars, fnVars, cfbVars>>

ApiGetCases == Serve("get_cases", api_get_cases(disk, nops + 1))

ApiCreateCase == \E body \in CaseBodies : Serve("create", api_create_case(disk, nops + 1, body))

ApiUpdateCase ==
    \E id \in KnownIds, body \in CaseBodies :
        Serve("update", api_update_case(disk, nops + 1, id, body))

ApiDeleteCase == \E id \in KnownIds : Serve("delete", api_delete_case(disk, nops + 1, id))

ApiAddFocus ==
    \E id \in KnownIds, body \in FocusBodies :
        Serve("focus", api_add_focus(disk, nops + 1, id, body))

ApiSetDeadlines ==
    \E id \in KnownIds, body \in DeadlineBodies :
        Serve("deadlines", api_set_deadlines(disk, nops + 1, id, body))

ApiSetAttention ==
    \E id \in KnownIds, state \in AttentionInputs :
        Serve("attention", api_set_attention(disk, nops + 1, id, state))

ApiSetPriority ==
    \E id \in KnownIds, state \in SwitchInputs :
        Serve("priority", api_set_priority(disk, nops + 1, id, state))

ApiSetArchive ==
    \E id \in KnownIds, state \in SwitchInputs :
        Serve("archive", api_set_archive(disk, nops + 1, id, state))

AddColleagueTask ==
    \E id \in KnownIds, request \in TaskRequests :
        Serve("add_task", add_colleague_task(disk, nops + 1, id, request))

ReviewColleagueTask ==
    \E id \in KnownIds, task_id \in KnownTaskIds :
        Serve("review", review_colleague_task(disk, nops + 1, id, task_id))

ApiImportCases ==
    \E csv \in CsvDocs : Serve("import", import_cases_from_csv(disk, nops + 1, csv))

Next ==
    \/ ApiGetCases
    \/ ApiCreateCase
    \/ ApiUpdateCase
    \/ ApiDeleteCase
    \/ ApiAddFocus
    \/ ApiSetDeadlines
    \/ ApiSetAttention
    \/ ApiSetPriority
    \/ ApiSetArchive
    \/ AddColleagueTask
    \/ ReviewColleagueTask
    \/ ApiImportCases

Spec == Init /\ [][Next]_vars

\* ------------------------------------------------------------------ what the store keeps

\* the cases of data/cases.json, read as Case objects
PersistedCases == IF disk.t = "json" THEN VCaseFile(disk.v.v).v.cases ELSE <<>>

\* the deadlines of c that are unresolved and dated
Qualifying(c) ==
    {i \in DOMAIN c.deadlines : ~c.deadlines[i].resolved /\ c.deadlines[i].due_date # JNull}

\* next_due is the earliest qualifying due date, null when there is none
NextDueDerived(c) ==
    IF Qualifying(c) = {} THEN c.next_due = JNull
    ELSE /\ \E i \in Qualifying(c) : c.next_due = c.deadlines[i].due_date
         /\ \A i \in Qualifying(c) : c.next_due.v <= c.deadlines[i].due_date.v

\* current_focus is the text of the last focus entry, when there is one
FocusDerived(c) ==
    c.focus_log # <<>> => c.current_focus = c.focus_log[Len(c.focus_log)].text

\* a case number that is more than white space
NonBlank(x) == x # JNull /\ \E i \in DOMAIN x.v : x.v[i] \notin Whitespace

\* the status of a case that is neither archived nor locked follows its case number
StatusDerived(c) ==
    (~c.archived /\ c.status \notin SPECIAL_STATUSES)
        => c.status = IF NonBlank(c.case_number) THEN S_Active ELSE S_PreFiling

\* C1: starting from an empty store, after any sequence of requests every case of the
\* persisted file is a fixed point of recompute: its next_due, its current_focus and,
\* unless it is archived or locked, its status are already what its deadlines, its
\* focus_log and its case_number give.
C1_PersistedFixedPoint ==
    LET cases == PersistedCases
    IN  \A i \in DOMAIN cases :
            /\ NextDueDerived(cases[i])
            /\ FocusDerived(cases[i])
            /\ StatusDerived(cases[i])

\* a deadline replacement has stored a case with a due date to derive
C1_Witness ==
    /\ resp.op = "deadlines" /\ resp.code = 200
    /\ \E i \in DOMAIN PersistedCases :
          /\ PersistedCases[i].next_due # JNull
          /\ PersistedCases[i].focus_log # <<>>

C8_RoundTrip ==
    ~load(disk, nops + 1).err =>
        StoredCases(save(load(disk, nops + 1).model, nops + 1)) = StoredCases(disk)

\* ------------------------------------------------------------------ recompute alone

MaxDeadlines == 2
MaxDate == 2

DeadlineInputs ==
    {[due_date |-> due, description |-> <<"x">>, resolved |-> res] :
        <<due, res>> \in ({JNull} \cup {JDate(n) : n \in 0..MaxDate}) \X BOOLEAN}

DeadlineLists ==
    UNION {[1..n -> DeadlineInputs] : n \in 0..MaxDeadlines}

FE(tx) == [at |-> 0, author |-> <<"W","B">>, text |-> tx]
FocusLogs == {<<>>, <<FE(<<"f","1">>)>>, <<FE(<<"f","1">>), FE(<<"f","2">>)>>}

RcCaseNumbers == {JNull, JStr(<<>>), JStr(<<" ">>), JStr(<<" ","7">>)}
RcStatuses == {S_Active, S_PreFiling, S_Settlement, S_Prospect}

\* a Case as the handlers hand it to recompute, its derived fields stale
RcCase(dls, fl, cn, st, ar) ==
    [id |-> IdPool[1], client_name |-> N_a, case_name |-> N_b, case_type |-> T_PI,
     stage |-> S_PreFilingStage, status |-> st, attention |-> S_Empty, paralegal |-> <<>>,
     current_focus |-> <<"o">>, focus_log |-> fl, deadlines |-> dls,
     colleague_tasks |-> <<>>, case_number |-> cn, top_priority |-> FALSE,
     archived |-> ar, next_due |-> JDate(0)]

RecomputeInputs ==
    {RcCase(p[1], p[2], p[3], p[4], p[5]) :
        p \in DeadlineLists \X FocusLogs \X RcCaseNumbers \X RcStatuses \X BOOLEAN}

InitRecompute ==
    /\ rc_case \in {Some(c) : c \in RecomputeInputs}
    /\ rc_out = None
    /\ StoreIdle /\ FsIdle /\ FnIdle /\ CfbIdle

Recompute ==
    /\ rc_out = None
    /\ rc_out' = Some(recompute(rc_case[1]))
    /\ UNCHANGED <<rc_case, storeVars, fsVars, fnVars, cfbVars>>

NextRecompute == Recompute

SpecRecompute == InitRecompute /\ [][NextRecompute]_vars

\* C2: after recompute(c), next_due is the earliest due_date among the deadlines of c
\* that are unresolved and dated, and null when no deadline qualifies.
C2_NextDueEarliest ==
    rc_out # None => NextDueDerived([rc_case[1] EXCEPT !.next_due = rc_out[1].next_due])

\* recompute has met a resolved deadline, an undated one and two dated ones out of order
C2_Witness ==
    /\ rc_out # None
    /\ Len(rc_case[1].deadlines) = 2
    /\ rc_case[1].deadlines[1].due_date = JDate(2) /\ ~rc_case[1].deadlines[1].resolved
    /\ rc_case[1].deadlines[2].due_date = JDate(1) /\ ~rc_case[1].deadlines[2].resolved
    /\ rc_out[1].next_due = JDate(1)

\* C3: after recompute(c) of a case with a non-empty focus_log, current_focus is the
\* text of the last entry of the log, whatever it held before.
C3_FocusIsLastEntry ==
    (rc_out # None /\ rc_case[1].focus_log # <<>>)
        => rc_out[1].current_focus = rc_case[1].focus_log[Len(rc_case[1].focus_log)].text

\* recompute has replaced a current_focus that was none of the two entries of the log
C3_Witness ==
    /\ rc_out # None
    /\ Len(rc_case[1].focus_log) = 2
    /\ rc_case[1].current_focus # rc_out[1].current_focus
    /\ rc_out[1].current_focus = <<"f","2">>

\* C4: after recompute(c) of a case that is neither archived nor locked, status is
\* Active if and only if the case_number without surrounding white space is non-empty,
\* and Pre-Filing otherwise.
C4_StatusFollowsCaseNumber ==
    (rc_out # None /\ ~rc_case[1].archived /\ rc_case[1].status \notin SPECIAL_STATUSES)
        => /\ rc_out[1].status = S_Active <=> NonBlank(rc_case[1].case_number)
           /\ ~NonBlank(rc_case[1].case_number) => rc_out[1].status = S_PreFiling

\* recompute has turned an Active case whose case_number is white space to Pre-Filing
C4_Witness ==
    /\ rc_out # None
    /\ ~rc_case[1].archived /\ rc_case[1].status = S_Active
    /\ rc_case[1].case_number = JStr(<<" ">>)
    /\ rc_out[1].status = S_PreFiling

\* ------------------------------------------------------------------ load() on any file

MaxLoads == 2

\* d with key set to x, unless x is Missing
WithKey(d, key, x) == IF x = Missing THEN d ELSE Put(d, key, x)

RawStages == {Missing, JStr(<<"f","i","l","e","d">>), JStr(<<"z","z">>), JInt(5)}
RawStatuses ==
    {Missing, JStr(S_Prospect), JStr(S_Settlement),
     JStr(<<" ","a","c","t","i","v","e"," ">>), JStr(<<"z","z">>)}
RawAttentions == {JStr(S_Empty), JStr(<<"h","o","t">>)}
RawDeadlineLists ==
    {Missing, JStr(<<"x">>),
     JList(<<JInt(1), JDict([due_date |-> JStr(<<>>), resolved |-> JInt(1)])>>),
     JList(<<DL(JStr(IsoDate(3)), FALSE)>>),
     JList(<<DL(JNaN, FALSE)>>)}
RawFocusLogs == {Missing, JList(<<>>)}
RawCaseNumbers == {JNull, JStr(<<"7">>)}
RawClientNames == {Missing, JStr(N_a)}

\* an entry of "cases" as a hand-edited or older file may hold it
RawCase(stage, status, attention, deadlines, focus_log, case_number, client_name) ==
    JDict(WithKey(WithKey(WithKey(WithKey(WithKey(
              [id |-> JStr(IdPool[1]), case_name |-> JStr(N_b), case_type |-> JStr(T_PI),
               attention |-> attention, case_number |-> case_number],
              "stage", stage), "status", status), "deadlines", deadlines),
              "focus_log", focus_log), "client_name", client_name))

RawCases ==
    {RawCase(p[1], p[2], p[3], p[4], p[5], p[6], p[7]) :
        p \in RawStages \X RawStatuses \X RawAttentions \X RawDeadlineLists
                \X RawFocusLogs \X RawCaseNumbers \X RawClientNames}

RawFile(schema_version, saved_at, cases) ==
    Doc(JDict(WithKey(WithKey(WithKey([note |-> JNull], "schema_version", schema_version),
                              "saved_at", saved_at), "cases", cases)))

GoodRawCase ==
    RawCase(JStr(S_Filed), JStr(S_Active), JStr(S_Empty), JList(<<>>), JList(<<>>),
            JStr(<<"7">>), JStr(N_a))

\* a second entry, with an id of its own and everything to migrate
SecondRawCase ==
    JDict(Put(RawCase(JStr(<<"z","z">>), JStr(S_Prospect), JStr(<<"h","o","t">>), Missing,
                      Missing, JNull, JStr(N_a)).v, "id", JStr(IdPool[2])))

\* lists of up to MaxEntries entries: the two cases and a number, in any order
MaxEntries == 3
MixedCaseLists ==
    UNION {[1..n -> {JInt(3), GoodRawCase, SecondRawCase}] : n \in 2..MaxEntries}

\* what data/cases.json may hold when load() opens it
FileContents ==
    {Absent, Garbage, Doc(JNull), Doc(JList(<<>>))}
    \cup {RawFile(JInt(1), JStr(IsoTime(0)), JList(l)) : l \in MixedCaseLists}
    \cup {RawFile(JInt(1), JStr(IsoTime(0)), JList(<<c>>)) : c \in RawCases}
    \cup {RawFile(p[1], p[2], p[3]) :
            p \in {Missing, JInt(1), JInt(2)} \X {Missing, JStr(IsoTime(0))}
                    \X {Missing, JStr(<<"x">>), JList(<<>>), JList(<<JInt(3), GoodRawCase>>)}}

InitLoad ==
    /\ disk \in FileContents
    /\ nops = 0
    /\ resp = [op |-> "none", code |-> 0, out |-> JNull]
    /\ RcIdle /\ FsIdle /\ FnIdle /\ CfbIdle

\* load() at time nops + 1
LoadFile ==
    /\ nops < MaxLoads
    /\ \E x \in {load(disk, nops + 1)} :
          /\ disk' = x.disk
          /\ resp' = [op |-> "load", code |-> IF x.err THEN 500 ELSE 200, out |-> x.model]
    /\ nops' = nops + 1
    /\ UNCHANGED <<rcVars, fsVars, fnVars, cfbVars>>

\* _migrate_raw_file(raw) on the parsed content of the file
MigrateFile ==
    /\ nops < MaxLoads
    /\ disk.t = "json"
    /\ resp' = [op |-> "migrate", code |-> 0, out |-> migrate_raw_file(disk.v, nops + 1)]
    /\ nops' = nops + 1
    /\ UNCHANGED <<disk, rcVars, fsVars, fnVars, cfbVars>>

NextLoad == LoadFile \/ MigrateFile

SpecLoad == InitLoad /\ [][NextLoad]_vars

\* C6: migrate_raw_file is idempotent: applied to the corrected output of a call that
\* returned, it reports changed = false and returns the same content.
C6_MigrateIdempotent ==
    (resp.op = "migrate" /\ ~resp.out.err) =>
        /\ ~migrate_raw_file(resp.out.raw, nops + 1).err
        /\ ~migrate_raw_file(resp.out.raw, nops + 1).changed
        /\ migrate_raw_file(resp.out.raw, nops + 1).raw = resp.out.raw

\* C7: load() never fails on bad persisted content: whatever the file holds, it
\* returns a valid CaseFile instead of raising.
C7_LoadNeverFails == resp.op = "load" => resp.code = 200

\* ------------------------------------------------------------------ save() step by step
\* save() as the file system sees it. A file is the sequence of the chunks written to
\* it; a directory entry names an inode, and a thread that has opened a file keeps
\* writing to its inode whatever the entry names afterwards. The sync handlers of
\* the app run on a thread pool, so several save() may run at once.

NChunks == 2
MaxSaves == 2
MaxClock == 1

Chunk(ver, k) == [ver |-> ver, k |-> k]
\* what a write past the end of a file leaves in between
Hole == Chunk(<<0, 0>>, 0)
\* the document json.dump writes for version ver, complete
FullDoc(ver) == [k \in 1..NChunks |-> Chunk(ver, k)]
\* the version on disk before the first save() of the model
PriorVer == <<0, 1>>

IsComplete(data) == \E v \in {data[i].ver : i \in DOMAIN data} : data = FullDoc(v)

\* write(chunk) at offset off of a file
WriteAt(data, off, chunk) ==
    [i \in 1..(IF Len(data) > off THEN Len(data) ELSE off + 1) |->
        IF i = off + 1 THEN chunk ELSE IF i <= Len(data) THEN data[i] ELSE Hole]

IdleWriter == [pc |-> "idle", ver |-> <<0, 0>>, fd |-> 0, off |-> 0, n |-> 0]

\* wr with the thread w at pc
Goto(w, pc) == [wr EXCEPT ![w].pc = pc]

\* the end of a save() of w, returned or raised
EndSave(w) == [wr EXCEPT ![w].pc = "idle", ![w].n = @ + 1]

\* open(tmp, "w"): the entry is created, or the file it names is truncated
OpenTmp(w) ==
    /\ ~crashed /\ wr[w].pc = "idle" /\ wr[w].n < MaxSaves
    /\ IF dir.tmp = 0
       THEN /\ inode' = Append(inode, <<>>)
            /\ dir' = [dir EXCEPT !.tmp = Len(inode) + 1]
       ELSE /\ inode' = [inode EXCEPT ![dir.tmp] = <<>>]
            /\ UNCHANGED dir
    /\ wr' = [wr EXCEPT ![w] = [pc |-> "write", ver |-> <<w, wr[w].n + 1>>,
                                fd |-> dir'.tmp, off |-> 0, n |-> wr[w].n]]
    /\ UNCHANGED <<platform, failed, crashed, seen, backups, clock, copy_raised, content, storeVars, rcVars, fnVars, cfbVars>>

\* json.dump(..., f): one buffer of the document reaches the file; the last one
\* at the close of the with block
WriteChunk(w) ==
    /\ ~crashed /\ wr[w].pc = "write"
    /\ inode' = [inode EXCEPT ![wr[w].fd] = WriteAt(@, wr[w].off, Chunk(wr[w].ver, wr[w].off + 1))]
    /\ wr' = [wr EXCEPT ![w].off = @ + 1,
                        ![w].pc = IF wr[w].off + 1 = NChunks THEN "move" ELSE "write"]
    /\ UNCHANGED <<platform, dir, failed, crashed, seen, backups, clock, copy_raised, content, storeVars, rcVars, fnVars, cfbVars>>

\* shutil.move(tmp, CASES_PATH): os.rename where it succeeds. With no tmp left it
\* raises FileNotFoundError. On Windows os.rename refuses an existing destination,
\* and shutil.move then copies tmp over it (copy2) and unlinks tmp: the copy opens
\* data/cases.json for writing, which truncates it.
Move(w) ==
    /\ ~crashed /\ wr[w].pc = "move"
    /\ IF dir.tmp = 0
       THEN /\ failed' = failed \cup {w}
            /\ wr' = EndSave(w)
            /\ UNCHANGED <<dir, inode>>
       ELSE IF platform = "posix" \/ dir.cases = 0
       THEN /\ dir' = [cases |-> dir.tmp, tmp |-> 0]
            /\ wr' = Goto(w, "backup")
            /\ UNCHANGED <<inode, failed>>
       ELSE /\ inode' = [inode EXCEPT ![dir.cases] = <<>>]
            /\ wr' = [wr EXCEPT ![w].pc = "copy", ![w].off = 0]
            /\ UNCHANGED <<dir, failed>>
    /\ UNCHANGED <<platform, crashed, seen, backups, clock, copy_raised, content, storeVars, rcVars, fnVars, cfbVars>>

\* the copy of shutil.move: one buffer of tmp reaches data/cases.json
CopyChunk(w) ==
    /\ ~crashed /\ wr[w].pc = "copy"
    /\ inode' = [inode EXCEPT ![dir.cases] = WriteAt(@, wr[w].off, inode[dir.tmp][wr[w].off + 1])]
    /\ wr' = [wr EXCEPT ![w].off = @ + 1,
                        ![w].pc = IF wr[w].off + 1 = Len(inode[dir.tmp]) THEN "unlink"
                                  ELSE "copy"]
    /\ UNCHANGED <<platform, dir, failed, crashed, seen, backups, clock, copy_raised, content, storeVars, rcVars, fnVars, cfbVars>>

\* the os.unlink(tmp) that ends the copy of shutil.move
Unlink(w) ==
    /\ ~crashed /\ wr[w].pc = "unlink"
    /\ dir' = [dir EXCEPT !.tmp = 0]
    /\ wr' = Goto(w, "backup")
    /\ UNCHANGED <<platform, inode, failed, crashed, seen, backups, clock, copy_raised, content, storeVars, rcVars, fnVars, cfbVars>>

\* shutil.copyfile(CASES_PATH, backups/cases-<stamp>.json), the stamp to the second
Backup(w) ==
    /\ ~crashed /\ wr[w].pc = "backup"
    /\ backups' = [k \in (DOMAIN backups) \cup {clock} |->
                      IF k = clock THEN inode[dir.cases] ELSE backups[k]]
    /\ wr' = EndSave(w)
    /\ UNCHANGED <<platform, dir, inode, failed, crashed, seen, clock, copy_raised, content, storeVars, rcVars, fnVars, cfbVars>>

\* a second passes
Tick ==
    /\ ~crashed /\ clock < MaxClock
    /\ clock' = clock + 1
    /\ UNCHANGED <<platform, dir, inode, wr, failed, crashed, seen, backups, copy_raised, content, storeVars, rcVars, fnVars, cfbVars>>

\* the process is killed while a save() is under way
Crash ==
    /\ ~crashed
    /\ \E w \in DOMAIN wr : wr[w].pc # "idle"
    /\ crashed' = TRUE
    /\ UNCHANGED <<platform, dir, inode, wr, failed, seen, backups, clock, copy_raised, content, storeVars, rcVars, fnVars, cfbVars>>

\* a reader opens data/cases.json and reads it to the end
ReadCanonical ==
    /\ seen' = Some([exists |-> dir.cases # 0,
                     data |-> IF dir.cases # 0 THEN inode[dir.cases] ELSE <<>>])
    /\ UNCHANGED <<platform, dir, inode, wr, failed, crashed, backups, clock, copy_raised, content, storeVars, rcVars, fnVars, cfbVars>>

\* one thread saves; data/cases.json is there already, or not yet
InitCrash ==
    /\ platform \in {"posix", "nt"}
    /\ \/ dir = [cases |-> 1, tmp |-> 0] /\ inode = <<FullDoc(PriorVer)>>
       \/ dir = [cases |-> 0, tmp |-> 0] /\ inode = <<>>
    /\ wr = [w \in 1..1 |-> IdleWriter]
    /\ failed = {} /\ crashed = FALSE /\ seen = None /\ backups = <<>> /\ clock = 0
    /\ copy_raised = {} /\ content = <<>>
    /\ StoreIdle /\ RcIdle /\ FnIdle /\ CfbIdle

NextCrash ==
    \/ \E w \in 1..1 :
          OpenTmp(w) \/ WriteChunk(w) \/ Move(w) \/ CopyChunk(w) \/ Unlink(w) \/ Backup(w)
    \/ Tick
    \/ Crash
    \/ ReadCanonical

SpecCrash == InitCrash /\ [][NextCrash]_vars

\* two threads save at once, where os.rename replaces the destination
InitConc ==
    /\ platform = "posix"
    /\ dir = [cases |-> 1, tmp |-> 0] /\ inode = <<FullDoc(PriorVer)>>
    /\ wr = [w \in 1..2 |-> IdleWriter]
    /\ failed = {} /\ crashed = FALSE /\ seen = None /\ backups = <<>> /\ clock = 0
    /\ copy_raised = {} /\ content = <<>>
    /\ StoreIdle /\ RcIdle /\ FnIdle /\ CfbIdle

NextConc ==
    \/ \E w \in 1..2 : OpenTmp(w) \/ WriteChunk(w) \/ Move(w) \/ Backup(w)
    \/ Tick
    \/ ReadCanonical

SpecConc == InitConc /\ [][NextConc]_vars

\* C9: when save() is interrupted between the start of the write of the temporary
\* file and the end of the rename, data/cases.json holds a complete version, the
\* prior one or the new one, never a truncated document.
C9_CrashAtomic ==
    (crashed /\ dir.cases # 0) => IsComplete(inode[dir.cases])

\* C10: with two threads in save() at once, a reader of data/cases.json always gets
\* a complete document written by a single save(), and no save() fails because
\* the other thread moved the temporary file.
C10_ConcurrentSaves ==
    /\ (seen # None /\ seen[1].exists) => IsComplete(seen[1].data)
    /\ failed = {}

\* ------------------------------------------------------------------ the backup copy

\* shutil.copyfile raises (data/backups is gone or not writable, the disk is full):
\* save() has no try around it, so the exception leaves save() and the handler,
\* after data/cases.json was replaced
BackupRaises(w) ==
    /\ ~crashed /\ wr[w].pc = "backup"
    /\ copy_raised' = copy_raised \cup {w}
    /\ failed' = failed \cup {w}
    /\ wr' = EndSave(w)
    /\ UNCHANGED <<platform, dir, inode, crashed, seen, backups, clock, content, storeVars, rcVars, fnVars, cfbVars>>

\* one thread saves, and the backup copy may fail
InitBackup == InitCrash

NextBackup ==
    \/ \E w \in 1..1 :
          \/ OpenTmp(w) \/ WriteChunk(w) \/ Move(w) \/ CopyChunk(w) \/ Unlink(w)
          \/ Backup(w) \/ BackupRaises(w)
    \/ Tick
    \/ ReadCanonical

SpecBackup == InitBackup /\ [][NextBackup]_vars

\* C11: a save() whose backup copy raised still completes: it does not raise, and
\* the operation that called it reports success.
C11_BackupFailureTolerated ==
    \A w \in copy_raised : w \notin failed

\* C12: every save() that returned has its own snapshot in data/backups, also when
\* several saves fall into one UTC second: after n saves there are n snapshots,
\* the k-th equal to data/cases.json as the k-th save wrote it.
C12_OneSnapshotPerSave ==
    /\ Cardinality(DOMAIN backups) = wr[1].n
    /\ \A k \in 1..wr[1].n :
          \E stamp \in DOMAIN backups : backups[stamp] = FullDoc(<<1, k>>)

\* ------------------------------------------------------------------ two writers, one file

\* the version of a complete document
VerOf(data) == data[1].ver

\* model = load() of a handler on thread w, which then changes its own case: what
\* the thread will save is what it read plus its change. No lock is taken and no
\* version is compared. A document that is not complete does not parse, and the
\* request ends with the exception of json.load.
LoadCycle(w) ==
    /\ wr[w].pc = "idle" /\ wr[w].n < MaxSaves
    /\ <<w, wr[w].n + 1>> \notin DOMAIN content
    /\ IF IsComplete(inode[dir.cases])
       THEN /\ content' = [v \in (DOMAIN content) \cup {<<w, wr[w].n + 1>>} |->
                              IF v \in DOMAIN content THEN content[v]
                              ELSE content[VerOf(inode[dir.cases])] \cup {v}]
            /\ UNCHANGED <<wr, failed>>
       ELSE /\ failed' = failed \cup {w}
            /\ wr' = EndSave(w)
            /\ UNCHANGED content
    /\ UNCHANGED <<platform, dir, inode, crashed, seen, backups, clock, copy_raised, storeVars, rcVars, fnVars, cfbVars>>

\* save(model) of the handler that has loaded
SaveCycle(w) == <<w, wr[w].n + 1>> \in DOMAIN content /\ OpenTmp(w)

InitCycle ==
    /\ platform = "posix"
    /\ dir = [cases |-> 1, tmp |-> 0] /\ inode = <<FullDoc(PriorVer)>>
    /\ wr = [w \in 1..2 |-> IdleWriter]
    /\ failed = {} /\ crashed = FALSE /\ seen = None /\ backups = <<>> /\ clock = 0
    /\ copy_raised = {} /\ content = [v \in {PriorVer} |-> {}]
    /\ StoreIdle /\ RcIdle /\ FnIdle /\ CfbIdle

NextCycle ==
    \E w \in 1..2 : LoadCycle(w) \/ SaveCycle(w) \/ WriteChunk(w) \/ Move(w) \/ Backup(w)

SpecCycle == InitCycle /\ [][NextCycle]_vars

\* C13: two handlers run load, change, save at once with no lock and no version
\* check; whatever the interleaving, once both are done data/cases.json is the
\* whole document of one of the saves, never a mix of parts of two.
C13_WholeFileWrites ==
    (\A w \in 1..2 : wr[w].pc = "idle") => IsComplete(inode[dir.cases])

\* both handlers have succeeded and the file holds the change of the second only
C13_LostUpdate ==
    /\ \A w \in 1..2 : wr[w].pc = "idle" /\ wr[w].n = 1
    /\ failed = {}
    /\ IsComplete(inode[dir.cases])
    /\ content[VerOf(inode[dir.cases])] = {<<2, 1>>}

\* ------------------------------------------------------------------ identity and history

\* the ids of the stored cases, in the order of the file
StoredIds(d) == [i \in DOMAIN StoredCases(d) |-> StoredCases(d)[i].v["id"]]

\* l without one of its elements
Without(l) == {Pop(l, i) : i \in DOMAIN l}

\* C14: no request changes the id of a stored case: after an update (also one whose
\* body carries another id), a focus, deadline, attention, priority, archive or
\* colleague-task request or a CSV import, every position of the file holds the id
\* it held before; a delete only takes one id out.
C14_IdImmutable ==
    [][IF resp'.op = "delete" /\ resp'.code = 204
       THEN StoredIds(disk') \in Without(StoredIds(disk))
       ELSE \A i \in DOMAIN StoredIds(disk) :
               i \in DOMAIN StoredIds(disk') /\ StoredIds(disk')[i] = StoredIds(disk)[i]]_vars

\* a full-record update whose body carries the id of the first case has been stored
\* on the second case
C14_Witness ==
    /\ resp.op = "update" /\ resp.code = 200
    /\ resp.out.status = S_PostTrial
    /\ resp.out.id = IdPool[2]
    /\ Len(StoredIds(disk)) = 2 /\ StoredIds(disk)[2] = JStr(IdPool[2])

\* C15: no two cases of the persisted file have the same id.
C15_IdsUnique ==
    \A i, j \in DOMAIN StoredIds(disk) :
        i # j => StoredIds(disk)[i] # StoredIds(disk)[j]

IsPrefix(a, b) == Len(a) <= Len(b) /\ SubSeq(b, 1, Len(a)) = a

\* a stored task without the two fields a review sets
TaskCore(t) == [k \in {"id", "at", "author", "task"} |-> t.v[k]]
TaskCores(c) == [j \in DOMAIN c.v["colleague_tasks"].v |-> TaskCore(c.v["colleague_tasks"].v[j])]

\* the stored case new continues the focus_log and the colleague_tasks of old
Continues(old, new) ==
    /\ IsPrefix(old.v["focus_log"].v, new.v["focus_log"].v)
    /\ IsPrefix(TaskCores(old), TaskCores(new))

\* C16: focus_log and colleague_tasks only grow: after any write the focus_log a case
\* had is a prefix of the one it has, and so are its colleague_tasks, the reviewed
\* and reviewed_at of a task apart; the cases a delete leaves keep theirs.
C16_AppendOnly ==
    [][IF resp'.op = "delete" /\ resp'.code = 204
       THEN \A j \in DOMAIN StoredCases(disk') :
               \E i \in DOMAIN StoredCases(disk) :
                   Continues(StoredCases(disk)[i], StoredCases(disk')[j])
       ELSE \A i \in DOMAIN StoredCases(disk) :
               /\ i \in DOMAIN StoredCases(disk')
               /\ Continues(StoredCases(disk)[i], StoredCases(disk')[i])]_vars

\* ------------------------------------------------------------------ the normalizers alone

\* str.upper(), to write the inputs
UpperOf == [c \in {LowerChars[i] : i \in DOMAIN LowerChars} |->
               UpperChars[CHOOSE i \in DOMAIN LowerChars : LowerChars[i] = c]]
Upper(s) == [i \in DOMAIN s |-> IF s[i] \in DOMAIN UpperOf THEN UpperOf[s[i]] ELSE s[i]]

\* a text as users type it: in any case, with white space around it
Forms(text) ==
    {pre \o t \o post : pre \in {<<>>, <<" ">>, <<"\t">>}, post \in {<<>>, <<" ">>, <<"\n">>},
                       t \in {text, Upper(text), Lower(text)}}

X_PreFilling == <<"P","r","e","-","F","i","l","l","i","n","g">>
X_pre_filing == <<"p","r","e"," ","f","i","l","i","n","g">>
X_prefiling == <<"p","r","e","f","i","l","i","n","g">>
X_pre_filed == <<"p","r","e","-","f","i","l","e","d">>
X_post_trial == <<"p","o","s","t"," ","t","r","i","a","l">>
X_needs == <<"n","e","e","d","s">>
X_need == <<"n","e","e","d">>
X_needs_dash == <<"n","e","e","d","s","-","a","t","t","e","n","t","i","o","n">>
X_wait == <<"w","a","i","t">>
X_junk == <<"z","z">>

NormalizerTexts ==
    Status \cup Stage \cup Attention
        \cup {X_PreFilling, X_pre_filing, X_prefiling, X_pre_filed, X_post_trial,
              X_needs, X_need, X_needs_dash, X_wait, X_junk}

\* what a caller hands to a normalizer: a text, or another JSON value
NormalizerInputs ==
    {JStr(f) : f \in UNION {Forms(t) : t \in NormalizerTexts}}
        \cup {JNull, JInt(0), JInt(5), JBool(TRUE), JList(<<>>), JList(<<JStr(S_Waiting)>>),
              JDict(<<>>)}

InitNormalize == arg \in NormalizerInputs /\ StoreIdle /\ RcIdle /\ FsIdle /\ CfbIdle

\* Case._coerce_attention(arg): code 500 stands for the exception
CoerceAttention ==
    /\ resp' = IF coerce_attention_raises(arg)
               THEN [op |-> "attention", code |-> 500, out |-> JNull]
               ELSE [op |-> "attention", code |-> 200, out |-> coerce_attention(arg)]
    /\ UNCHANGED <<disk, nops, rcVars, fsVars, fnVars, cfbVars>>

\* normalize_status(arg) for the str or None its callers pass
NormalizeStatus ==
    /\ ~normalize_raises(arg)
    /\ resp' = [op |-> "status", code |-> 200, out |-> normalize_status(arg)]
    /\ UNCHANGED <<disk, nops, rcVars, fsVars, fnVars, cfbVars>>

\* normalize_stage(arg) for the str or None its callers pass
NormalizeStage ==
    /\ ~normalize_raises(arg)
    /\ resp' = [op |-> "stage", code |-> 200, out |-> normalize_stage(arg)]
    /\ UNCHANGED <<disk, nops, rcVars, fsVars, fnVars, cfbVars>>

NextNormalize == CoerceAttention \/ NormalizeStatus \/ NormalizeStage

SpecNormalize == InitNormalize /\ [][NextNormalize]_vars

\* what the spec gives for each text of NormalizerTexts, in any of its forms
AttentionOf(t) ==
    IF t \in {S_NeedsAttention, X_needs, X_need, X_needs_dash} THEN S_NeedsAttention
    ELSE IF t \in {S_Waiting, X_wait} THEN S_Waiting
    ELSE S_Empty

StatusOf(t) ==
    IF t \in Status THEN Some(t)
    ELSE IF t \in {S_PreFilingStage, X_PreFilling, X_pre_filing, X_prefiling} THEN Some(S_PreFiling)
    ELSE IF t = X_post_trial THEN Some(S_PostTrial)
    ELSE None

StageOf(t) ==
    IF t \in Stage THEN Some(t)
    ELSE IF t \in {S_PreFiling, X_pre_filing, X_prefiling, X_pre_filed} THEN Some(S_PreFilingStage)
    ELSE None

\* C17: attention normalization never fails and always gives needs_attention,
\* waiting or the empty value: the three values give themselves, needs, need and
\* needs-attention give needs_attention, wait and waiting give waiting, and every
\* other input, a text or not, gives the empty value.
C17_AttentionTotal ==
    resp.op = "attention" =>
        /\ resp.code = 200
        /\ resp.out \in Attention
        /\ ~IsStr(arg) => resp.out = S_Empty
        /\ \A t \in NormalizerTexts :
              (IsStr(arg) /\ arg.v \in Forms(t)) => resp.out = AttentionOf(t)

\* C18: normalize_status and normalize_stage give none or a value of their enum:
\* none for an empty or blank input, the canonical value for an input that is one
\* up to case, the canonical form for a synonym (Pre-Filing for the misspelling
\* Pre-Filling), and none, never a default, for anything else.
C18_NormalizersCanonical ==
    /\ resp.op = "status" =>
          /\ resp.out \in {None} \cup {Some(v) : v \in Status}
          /\ IsNull(arg) => resp.out = None
          /\ \A t \in NormalizerTexts :
                (IsStr(arg) /\ arg.v \in Forms(t)) => resp.out = StatusOf(t)
    /\ resp.op = "stage" =>
          /\ resp.out \in {None} \cup {Some(v) : v \in Stage}
          /\ IsNull(arg) => resp.out = None
          /\ \A t \in NormalizerTexts :
                (IsStr(arg) /\ arg.v \in Forms(t)) => resp.out = StageOf(t)

\* normalize_status has mapped the misspelling in capitals to Pre-Filing
C18_Witness ==
    /\ resp.op = "status"
    /\ arg = JStr(<<" ">> \o Upper(X_PreFilling))
    /\ resp.out = Some(S_PreFiling)

\* ------------------------------------------------------------------ the CSV import alone

\* the data rows of one CSV
MaxRows == 2

\* the case a / b numbered 7 as a client creates it, with a paralegal and a focus
FullBody ==
    JDict(Put(Put(CaseBody(S_PreFiling, JStr(<<"7">>), FALSE).v,
                  "paralegal", JStr(<<"p">>)), "current_focus", JStr(<<"f">>)))

\* a case of this client, case name b, with this case number
NamedBody(client_name, case_number) ==
    JDict(Put(CaseBody(S_PreFiling, case_number, FALSE).v, "client_name", JStr(client_name)))

\* a store of three cases: a / b without number, z / b numbered K, a / b numbered k
ThreeCases ==
    api_create_case(
        api_create_case(
            api_create_case(Absent, 0, NamedBody(N_a, JNull)).disk,
            0, NamedBody(N_z, JStr(<<"K">>))).disk,
        0, NamedBody(N_a, JStr(<<"k">>))).disk

\* the stores an import meets: none yet, one with a Prospect case (which load()
\* rewrites), one with an Active case numbered 7, both cases a / b; the store
\* of three cases; one with a Settlement case a / b
ImportStores ==
    {Absent,
     api_create_case(Absent, 0, CaseBody(S_Prospect, JNull, FALSE)).disk,
     api_create_case(Absent, 0, FullBody).disk,
     ThreeCases,
     api_create_case(Absent, 0, CaseBody(S_Settlement, JNull, FALSE)).disk}

\* header lines: as documented; with a paralegal column; with status and stage; in
\* capitals and padded;
\* without case_type; without client_name; none at all; with an unnamed first
\* column (an exported row index)
ImportHeaders ==
    {CsvHeader,
     <<K_client_name, K_case_name, K_case_type, K_paralegal, K_current_focus>>,
     <<K_client_name, K_case_name, K_case_type, K_status, K_stage>>,
     <<Upper(K_client_name), <<" ">> \o K_case_name, K_case_type \o <<" ">>, K_case_number,
       K_current_focus>>,
     <<K_client_name, K_case_name, K_stage, K_case_number, K_current_focus>>,
     <<K_paralegal, Upper(K_case_name), K_case_type, K_case_number, K_current_focus>>,
     <<>>,
     << <<>>, K_client_name, K_case_name, K_case_type, K_case_number>>}

\* lines of five cells: a new case, no client_name, a blank case_name, a line
\* that names the stored case a / b, the same with k in the fourth cell, a line
\* for n / b with 9 in the fourth cell, and two lines for a / b that read
\* settlement / filed and Active in their last cells
ImportLines ==
    {<<N_z, N_b, T_PI, <<>>, <<"g">> >>,
     << <<>>, N_b, T_PI, <<>>, <<>> >>,
     <<N_z, <<" ">>, T_PI, <<>>, <<>> >>,
     <<N_A, N_b, <<>>, <<>>, <<>> >>,
     <<N_A, N_b, T_PI, <<"k">>, <<>> >>,
     << <<"n">>, N_b, T_PI, <<"9">>, <<>> >>,
     <<N_A, N_b, T_PI, Lower(S_Settlement), Lower(S_Filed)>>,
     <<N_A, N_b, T_PI, S_Active, <<>> >>}

ImportRowLists == UNION {[1..n -> ImportLines] : n \in 0..MaxRows}

ImportDocs == {[header |-> h, rows |-> r] : h \in ImportHeaders, r \in ImportRowLists}

InitImport ==
    /\ disk \in ImportStores
    /\ \E csv \in ImportDocs : arg = [csv |-> csv, before |-> disk]
    /\ nops = 0 /\ resp = [op |-> "none", code |-> 0, out |-> JNull]
    /\ RcIdle /\ FsIdle /\ CfbIdle

\* POST /api/cases/import with the CSV arg.csv
ImportCsv == nops = 0 /\ Serve("import", import_cases_from_csv(disk, 1, arg.csv))

NextImport == ImportCsv

SpecImport == InitImport /\ [][NextImport]_vars

\* the header line has a column of this name, in whatever case
HasColumn(header, key) == \E i \in DOMAIN header : header[i] \in Forms(key)

\* the cell of a line under the column of this name
CellUnder(header, line, key) ==
    line[CHOOSE i \in DOMAIN header : header[i] \in Forms(key)]

Blank(x) == \A i \in DOMAIN x : x[i] \in Whitespace

\* C19: a CSV whose header lacks client_name, case_name or case_type, compared
\* without regard to case, is rejected with an input error before any row is
\* read, and data/cases.json is left as it was.
C19_MissingColumnsRejected ==
    (/\ resp.op = "import"
     /\ \E key \in {K_client_name, K_case_name, K_case_type} : ~HasColumn(arg.csv.header, key))
        => resp.code = 400 /\ disk = arg.before

\* an import of lines without a case_type column was rejected on a store that
\* load() would have rewritten
C19_Witness ==
    /\ resp.op = "import" /\ resp.code = 400
    /\ arg.csv.header = <<K_client_name, K_case_name, K_stage, K_case_number, K_current_focus>>
    /\ Len(arg.csv.rows) = 2
    /\ arg.before # Absent /\ load(arg.before, 1).disk # arg.before

\* the numbers of the data rows of the CSV whose client_name or case_name is blank,
\* the first data row being row 2
BlankRows(csv) ==
    {i + 1 : i \in {j \in DOMAIN csv.rows :
                      \/ Blank(CellUnder(csv.header, csv.rows[j], K_client_name))
                      \/ Blank(CellUnder(csv.header, csv.rows[j], K_case_name))}}

\* C20: an import skips every data row whose client_name or case_name is blank,
\* with exactly one error naming the row, and adds or updates a case for each
\* other row; one new row followed by a row without client_name gives added 1,
\* updated 0 and the one error of row 3.
C20_BlankRowsSkipped ==
    (resp.op = "import" /\ resp.code = 200) =>
        /\ Len(resp.out.errors) = Cardinality(BlankRows(arg.csv))
        /\ {resp.out.errors[k] : k \in DOMAIN resp.out.errors} = BlankRows(arg.csv)
        /\ resp.out.added + resp.out.updated
              = Len(arg.csv.rows) - Cardinality(BlankRows(arg.csv))
        /\ (/\ arg.csv = [header |-> CsvHeader,
                          rows |-> << <<N_z, N_b, T_PI, <<>>, <<"g">> >>,
                                      << <<>>, N_b, T_PI, <<>>, <<>> >> >>])
              => resp.out = [added |-> 1, updated |-> 0, errors |-> <<3>>]

\* ------------------------------------------------------------------ what an import changes

\* the fields of a case an import may override
OverrideKeys == {K_case_type, K_paralegal, K_current_focus, K_case_number}

\* the name of the stored field a column fills
FieldOf(key) ==
    IF key = K_case_type THEN "case_type"
    ELSE IF key = K_paralegal THEN "paralegal"
    ELSE IF key = K_current_focus THEN "current_focus"
    ELSE "case_number"

\* every column of the header has a name
AllNamed(header) == \A i \in DOMAIN header : header[i] # <<>>

\* the import of one line updated the one stored case
OneRowUpdate ==
    /\ resp.op = "import" /\ resp.code = 200 /\ resp.out.updated = 1
    /\ Len(arg.csv.rows) = 1 /\ AllNamed(arg.csv.header)
    /\ Len(StoredCases(arg.before)) = 1

\* C21: when a CSV row matches an existing case, a blank cell under case_type,
\* paralegal, current_focus or case_number leaves that field of the case as it was.
C21_BlankCellsKeep ==
    OneRowUpdate =>
        \A key \in OverrideKeys :
            (/\ HasColumn(arg.csv.header, key)
             /\ Blank(CellUnder(arg.csv.header, arg.csv.rows[1], key)))
                => StoredCases(disk)[1].v[FieldOf(key)]
                     = StoredCases(arg.before)[1].v[FieldOf(key)]

\* the same for paralegal, current_focus and case_number alone
C21_BlankCellsKeepButType ==
    OneRowUpdate =>
        \A key \in OverrideKeys \ {K_case_type} :
            (/\ HasColumn(arg.csv.header, key)
             /\ Blank(CellUnder(arg.csv.header, arg.csv.rows[1], key)))
                => StoredCases(disk)[1].v[FieldOf(key)]
                     = StoredCases(arg.before)[1].v[FieldOf(key)]

\* ------------------------------------------------------------------ one request to one case

\* the stores a request meets: none yet; a Prospect case; the case numbered 7 with
\* a colleague task; an archived Active case without number; a Settlement case
AddressStores ==
    {Absent,
     api_create_case(Absent, 0, CaseBody(S_Prospect, JNull, FALSE)).disk,
     add_colleague_task(api_create_case(Absent, 0, FullBody).disk, 0, IdPool[1],
                        [task |-> <<"k">>, author |-> <<"N","C">>]).disk,
     api_create_case(Absent, 0, CaseBody(S_Active, JNull, TRUE)).disk,
     api_create_case(Absent, 0, CaseBody(S_Settlement, JNull, FALSE)).disk}

AddressOps ==
    {"get", "update", "delete", "focus", "deadlines", "attention", "priority", "archive",
     "add_task", "review"}

\* the handler of the request rq = [op, id, task_id]
Handle(d, now, rq) ==
    CASE rq.op = "get" -> api_get_case(d, now, rq.id)
      [] rq.op = "update" -> api_update_case(d, now, rq.id, CaseBody(S_Active, JNull, FALSE))
      [] rq.op = "delete" -> api_delete_case(d, now, rq.id)
      [] rq.op = "focus" ->
            api_add_focus(d, now, rq.id,
                JDict([at |-> JStr(IsoTime(0)), author |-> JStr(<<"W","B">>),
                       text |-> JStr(<<"f","1">>)]))
      [] rq.op = "deadlines" ->
            api_set_deadlines(d, now, rq.id, JList(<<DL(JStr(IsoDate(3)), FALSE)>>))
      [] rq.op = "attention" -> api_set_attention(d, now, rq.id, S_Waiting)
      [] rq.op = "priority" -> api_set_priority(d, now, rq.id, "on")
      [] rq.op = "archive" -> api_set_archive(d, now, rq.id, "toggle")
      [] rq.op = "add_task" ->
            add_colleague_task(d, now, rq.id, [task |-> <<"k">>, author |-> <<"N","C">>])
      [] rq.op = "review" -> review_colleague_task(d, now, rq.id, rq.task_id)

InitAddress ==
    /\ disk \in AddressStores
    /\ \E op \in AddressOps, id \in KnownIds, task_id \in KnownTaskIds :
          arg = [op |-> op, id |-> id, task_id |-> task_id, before |-> disk]
    /\ nops = 0 /\ resp = [op |-> "none", code |-> 0, out |-> JNull]
    /\ RcIdle /\ FsIdle /\ CfbIdle

\* the request arg is served
Address == nops = 0 /\ Serve(arg.op, Handle(disk, 1, arg))

NextAddress == Address

SpecAddress == InitAddress /\ [][NextAddress]_vars

\* the request arg names a case the store before it lacks, or, for a review, a
\* task its case lacks
Unknown ==
    LET cases == StoredCases(arg.before)
        hits == {i \in DOMAIN cases : cases[i].v["id"].v = arg.id}
    IN  \/ hits = {}
        \/ /\ arg.op = "review"
           /\ \A i \in hits : \A j \in DOMAIN cases[i].v["colleague_tasks"].v :
                  cases[i].v["colleague_tasks"].v[j].v["id"].v # arg.task_id

\* C22: a request to a case id the store lacks, or a review of a task id the case
\* lacks, is answered not found and leaves the stored cases as they were.
C22_NotFoundChangesNothing ==
    (resp.op \in AddressOps /\ Unknown)
        => resp.code = 404 /\ StoredCases(disk) = StoredCases(arg.before)

\* the same for the stores whose cases a load() leaves as they are
C22_NotFoundOnSettledStore ==
    (/\ resp.op \in AddressOps /\ Unknown
     /\ StoredCases(load(arg.before, 1).disk) = StoredCases(arg.before))
        => resp.code = 404 /\ StoredCases(disk) = StoredCases(arg.before)

\* ------------------------------------------------------------------ backend/cfb2.py: the TV payload
\* An upstream query (espn_day_scores, odds_next_week) either raises or answers; the
\* answer of a scoreboard query is held as the rows its normalizer makes of it
\* (_normalize_espn_prev and _normalize_espn_upcoming never raise), the answer of
\* the odds query as the games _index_odds finds priced in it.

CACHE_TTL == 120
ODDS_WINDOW_START == 8
ODDS_WINDOW_END == 22
ODDS_INTERVAL == 3600
HourSeconds == 3600
DayHours == 24

Raises == [t |-> "raise"]
Answers(x) == [t |-> "ok", v |-> x]

\* a row of the payload for one game, without odds
Row(g) == [game |-> g, odds |-> FALSE]

\* the module-level CACHE at import
CacheAtImport == [generated_at |-> None, prev |-> <<>>, next |-> <<>>, stamp |-> 0]

\* the object in static/data/cfb.json: a game d, generated at second 1
FbPayload == [generated_at |-> Some(1), prev |-> <<Row("d")>>, next |-> <<>>]
\* _fallback_payload(): None without a readable file, else what json.load gives:
\* a JSON object, or a non-empty JSON list
NoFile == [t |-> "none"]
DictFile(payload) == [t |-> "dict", v |-> payload]
NotDict == [t |-> "list"]

\* now.hour of dt.datetime.now(), the local time taken as UTC
Hour(t) == (t \div HourSeconds) % DayHours

\* _should_fetch_odds()
should_fetch_odds(t, last) ==
    IF Hour(t) < ODDS_WINDOW_START \/ Hour(t) > ODDS_WINDOW_END THEN FALSE
    ELSE IF last = None THEN TRUE
    ELSE t - last[1] >= ODDS_INTERVAL

\* get_odds_index_throttled(): [idx, last] afterwards; an exception keeps both
get_odds_index_throttled(idx, last, t, odds) ==
    IF should_fetch_odds(t, last) /\ odds # Raises
    THEN [idx |-> odds.v, last |-> Some(t)]
    ELSE [idx |-> idx, last |-> last]

\* prev_rows of refresh_cache
prev_rows_of(up) == IF up.today = Raises THEN <<>> ELSE up.today.v

\* next_rows of refresh_cache before the odds: both queries stand in one try
next_rows_of(up) ==
    IF up.sat = Raises \/ up.tomorrow = Raises THEN <<>>
    ELSE up.sat.v \o up.tomorrow.v

\* row["odds"] = odds_idx[key] for the rows whose game is priced
attach_odds(rows, idx) ==
    [i \in DOMAIN rows |-> IF rows[i].game \in idx THEN [rows[i] EXCEPT !.odds = TRUE]
                           ELSE rows[i]]

\* _fallback_enabled() and the file is there and parses
FallbackGiven(fb) == fb.enabled /\ fb.file # NoFile

\* CACHE.update(...) from live sources
LiveCache(t, prev_rows, next_rows) ==
    [generated_at |-> Some(t), prev |-> prev_rows, next |-> next_rows, stamp |-> t]

\* refresh_cache() with the rows and the odds index in hand:
\* [CACHE, raised]; fb.get of a list raises AttributeError
RefreshWith(cache, t, fb, prev_rows, next_rows) ==
    IF prev_rows = <<>> /\ next_rows = <<>> /\ FallbackGiven(fb)
    THEN IF fb.file = NotDict THEN [CACHE |-> cache, raised |-> TRUE]
         ELSE [CACHE |-> [generated_at |-> fb.file.v.generated_at,
                          prev |-> fb.file.v.prev, next |-> fb.file.v.next,
                          stamp |-> t],
               raised |-> FALSE]
    ELSE [CACHE |-> LiveCache(t, prev_rows, next_rows), raised |-> FALSE]

\* refresh_cache() at time t with the upstreams answering up:
\* [CACHE, ODDS_IDX, ODDS_LAST_FETCH, raised]
refresh_cache(cache, idx, last, t, fb, up) ==
    LET o == get_odds_index_throttled(idx, last, t, up.odds)
        r == RefreshWith(cache, t, fb, prev_rows_of(up), attach_odds(next_rows_of(up), o.idx))
    IN  [CACHE |-> r.CACHE, ODDS_IDX |-> o.idx, ODDS_LAST_FETCH |-> o.last,
         raised |-> r.raised]

\* the dict get_cached_payload returns for a cache
Payload(cache) == [generated_at |-> cache.generated_at, prev |-> cache.prev, next |-> cache.next]

\* not CACHE.get("_stamp") or (time.time() - CACHE["_stamp"] > CACHE_TTL)
Stale(cache, t) == cache.stamp = 0 \/ t - cache.stamp > CACHE_TTL

\* the return of get_cached_payload after its refresh attempt: [out, raised]
PayloadAfter(cache, fb) ==
    IF cache.prev = <<>> /\ cache.next = <<>> /\ FallbackGiven(fb)
    THEN IF fb.file = NotDict THEN [out |-> JNull, raised |-> TRUE]
         ELSE [out |-> Payload(fb.file.v), raised |-> FALSE]
    ELSE [out |-> Payload(cache), raised |-> FALSE]

\* get_cached_payload() at time t: [CACHE, ODDS_IDX, ODDS_LAST_FETCH, out, raised]
get_cached_payload(cache, idx, last, t, fb, up) ==
    IF Stale(cache, t)
    THEN LET r == refresh_cache(cache, idx, last, t, fb, up)
             p == PayloadAfter(r.CACHE, fb)
         IN  [CACHE |-> r.CACHE, ODDS_IDX |-> r.ODDS_IDX,
              ODDS_LAST_FETCH |-> r.ODDS_LAST_FETCH, out |-> p.out, raised |-> p.raised]
    ELSE [CACHE |-> cache, ODDS_IDX |-> idx, ODDS_LAST_FETCH |-> last,
          out |-> Payload(cache), raised |-> FALSE]

\* ---- the calls and what the upstreams answer

\* the calls and the waits of one behaviour
MaxCalls == 3

\* a scoreboard query raises, answers without a game, or answers with the game g;
\* the odds query raises or prices the game s
ScoreAnswers(g) == {Raises, Answers(<<>>), Answers(<<Row(g)>>)}
OddsAnswers == {Raises, Answers({"s"})}
Upstreams ==
    [today : ScoreAnswers("p"), sat : ScoreAnswers("s"),
     tomorrow : {Raises, Answers(<<Row("t")>>)}, odds : OddsAnswers]

\* the process starts a second before the odds window opens, or at noon
StartTimes == {ODDS_WINDOW_START * HourSeconds - 1, 12 * HourSeconds}
\* a little more than the freshness window, the odds interval
Delays == {CACHE_TTL + 1, ODDS_INTERVAL}

\* the fallback switched off, without and with a file; switched on, with the file
\* an object and with the file a list
Fallbacks ==
    {[enabled |-> FALSE, file |-> NoFile], [enabled |-> FALSE, file |-> DictFile(FbPayload)],
     [enabled |-> TRUE, file |-> DictFile(FbPayload)], [enabled |-> TRUE, file |-> NotDict]}

InitCfb ==
    /\ CACHE = CacheAtImport /\ ODDS_IDX = {} /\ ODDS_LAST_FETCH = None
    /\ time \in StartTimes /\ fallback \in Fallbacks
    /\ StoreIdle /\ RcIdle /\ FsIdle /\ FnIdle

\* the call op answered r, the upstreams having answered up; arg keeps the
\* answers, the cache and the odds stamp before the call, and the time of the call
Called(op, up, r, out) ==
    /\ nops < MaxCalls
    /\ CACHE' = r.CACHE /\ ODDS_IDX' = r.ODDS_IDX /\ ODDS_LAST_FETCH' = r.ODDS_LAST_FETCH
    /\ arg' = [up |-> up, before |-> CACHE, at |-> time, last |-> ODDS_LAST_FETCH]
    /\ resp' = [op |-> op, code |-> IF r.raised THEN 500 ELSE 200, out |-> out]
    /\ nops' = nops + 1
    /\ UNCHANGED <<disk, time, fallback, rcVars, fsVars>>

\* refresh_cache() as _startup and the scheduler call it
RefreshCache ==
    \E up \in Upstreams :
        \E r \in {refresh_cache(CACHE, ODDS_IDX, ODDS_LAST_FETCH, time, fallback, up)} :
            Called("refresh", up, r, JNull)

\* GET /tv/cfb: get_cached_payload()
GetCachedPayload ==
    \E up \in Upstreams :
        \E r \in {get_cached_payload(CACHE, ODDS_IDX, ODDS_LAST_FETCH, time, fallback, up)} :
            Called("payload", up, r, r.out)

\* time passes
Pass ==
    /\ nops < MaxCalls
    /\ \E d \in Delays : time' = time + d
    /\ nops' = nops + 1
    /\ UNCHANGED <<disk, resp, arg, CACHE, ODDS_IDX, ODDS_LAST_FETCH, fallback, rcVars, fsVars>>

NextCfb == RefreshCache \/ GetCachedPayload \/ Pass

SpecCfb == InitCfb /\ [][NextCfb]_vars

\* ---- what the payload promises

\* the games of a list of rows
Games(rows) == {rows[i].game : i \in DOMAIN rows}

\* the query answered, with at least one game
GaveRows(answer) == answer # Raises /\ answer.v # <<>>

\* the odds query was made by the last call
OddsAsked == should_fetch_odds(arg.at, arg.last)

\* every upstream query of the last call raised
EveryUpstreamFailed ==
    /\ arg.up.today = Raises /\ arg.up.sat = Raises
    /\ OddsAsked => arg.up.odds = Raises

\* the cache was within its freshness window when the last call came
FreshBefore == arg.before.stamp # 0 /\ arg.at - arg.before.stamp <= CACHE_TTL

\* C23: get_cached_payload never raises; with a cache that is absent or older than
\* the freshness window and a refresh in which every upstream fails it returns the
\* rows cached before the attempt; with a cache within the window it returns the
\* cached payload and refreshes nothing.
C23_PayloadDegradesToStale ==
    resp.op = "payload" =>
        /\ resp.code = 200
        /\ (~FreshBefore /\ EveryUpstreamFailed)
              => resp.out.prev = arg.before.prev /\ resp.out.next = arg.before.next
        /\ FreshBefore => resp.out = Payload(arg.before) /\ CACHE = arg.before

\* the part of it about a cache within its freshness window
C23_FreshIsServed ==
    (resp.op = "payload" /\ FreshBefore)
        => resp.code = 200 /\ resp.out = Payload(arg.before) /\ CACHE = arg.before

\* C24: when one upstream query of refresh_cache throws while another returns
\* data, refresh_cache does not raise and the cache holds the rows of every
\* query that succeeded.
C24_UpstreamsIsolated ==
    (/\ resp.op = "refresh"
     /\ \/ arg.up.today = Raises
        \/ arg.up.sat = Raises
        \/ arg.up.sat # Raises /\ arg.up.tomorrow = Raises
        \/ OddsAsked /\ arg.up.odds = Raises
     /\ \/ GaveRows(arg.up.today)
        \/ GaveRows(arg.up.sat)
        \/ arg.up.sat # Raises /\ GaveRows(arg.up.tomorrow))
        => /\ resp.code = 200
           /\ arg.up.today # Raises => Games(arg.up.today.v) \subseteq Games(CACHE.prev)
           /\ arg.up.sat # Raises => Games(arg.up.sat.v) \subseteq Games(CACHE.next)
           /\ (arg.up.sat # Raises /\ arg.up.tomorrow # Raises)
                 => Games(arg.up.tomorrow.v) \subseteq Games(CACHE.next)

\* the part of it about today's scoreboard and the odds
C24_TodayIsolated ==
    (/\ resp.op = "refresh"
     /\ GaveRows(arg.up.today)
     /\ arg.up.sat = Raises \/ arg.up.tomorrow = Raises \/ arg.up.odds = Raises)
        => resp.code = 200 /\ Games(arg.up.today.v) \subseteq Games(CACHE.prev)

\* no query of the last call gave a row
NothingObtained ==
    /\ ~GaveRows(arg.up.today)
    /\ arg.up.sat = Raises \/ (~GaveRows(arg.up.sat) /\ ~GaveRows(arg.up.tomorrow))

\* C28: a refresh in which every upstream yields nothing, the static fallback not
\* enabled, leaves generated_at and the cached prev and next rows as they were,
\* and generated_at never moves backwards over a refresh.
C28_FreshStampOnlyWithData ==
    resp.op = "refresh" =>
        /\ (NothingObtained /\ ~fallback.enabled)
              => /\ CACHE.generated_at = arg.before.generated_at
                 /\ CACHE.prev = arg.before.prev /\ CACHE.next = arg.before.next
        /\ arg.before.generated_at # None
              => /\ CACHE.generated_at # None
                 /\ CACHE.generated_at[1] >= arg.before.generated_at[1]

\* generated_at does not move backwards while the static fallback is not enabled
C28_StampMonotoneLive ==
    (resp.op = "refresh" /\ ~fallback.enabled /\ arg.before.generated_at # None)
        => /\ CACHE.generated_at # None
           /\ CACHE.generated_at[1] >= arg.before.generated_at[1]

\* ------------------------------------------------------------------ the order of the cases

\* the entries of "cases" in the file that _migrate_raw_file was given
GivenEntries == IF IsList(Get(disk.v.v, "cases", JNull)) THEN disk.v.v["cases"].v ELSE <<>>

\* _migrate_raw_file returned for a file that holds an object
MigratedObject == resp.op = "migrate" /\ ~resp.out.err /\ IsDict(disk.v)

\* C25: the cases _migrate_raw_file returns are exactly the entries of the input
\* that are records, each migrated, in the order of the input; an entry that is
\* no record is dropped and makes changed true.
C25_MigrationKeepsOrder ==
    MigratedObject =>
        LET records == SelectSeq(GivenEntries, IsDict)
            out == resp.out.raw.v["cases"].v
        IN  /\ Len(out) = Len(records)
            /\ \A k \in DOMAIN records : out[k] = JDict(migrate_raw_case(records[k].v).case)
            /\ Len(records) < Len(GivenEntries) => resp.out.changed

\* the second case, a number and the first case came back as the second case and
\* the first, migrated
C25_Witness ==
    /\ MigratedObject
    /\ GivenEntries = <<SecondRawCase, JInt(3), GoodRawCase>>
    /\ Len(resp.out.raw.v["cases"].v) = 2
    /\ resp.out.raw.v["cases"].v[1].v["id"] = JStr(IdPool[2])
    /\ resp.out.raw.v["cases"].v[1].v["status"] = JStr(S_PreFiling)
    /\ resp.out.raw.v["cases"].v[2].v["id"] = JStr(IdPool[1])
    /\ resp.out.changed

\* ------------------------------------------------------------------ which case a row meets

\* the import of one line with a client_name and a case_name, all columns named
OneRowImport ==
    /\ resp.op = "import" /\ resp.code = 200
    /\ Len(arg.csv.rows) = 1 /\ AllNamed(arg.csv.header)
    /\ ~Blank(CellUnder(arg.csv.header, arg.csv.rows[1], K_client_name))
    /\ ~Blank(CellUnder(arg.csv.header, arg.csv.rows[1], K_case_name))

\* the cell of the one line under this column, trimmed; empty without the column
RowCell(key) ==
    IF HasColumn(arg.csv.header, key)
    THEN Strip(CellUnder(arg.csv.header, arg.csv.rows[1], key))
    ELSE <<>>

\* the stored cases whose case_number is that of the line, and those whose names are
SameNumber(cases) ==
    {i \in DOMAIN cases :
        /\ RowCell(K_case_number) # <<>>
        /\ IsStr(cases[i].v["case_number"])
        /\ Lower(cases[i].v["case_number"].v) = Lower(RowCell(K_case_number))}
SameNames(cases) ==
    {i \in DOMAIN cases :
        /\ Lower(cases[i].v["client_name"].v) = Lower(RowCell(K_client_name))
        /\ Lower(cases[i].v["case_name"].v) = Lower(RowCell(K_case_name))}

Least(S) == CHOOSE i \in S : \A j \in S : i <= j

\* what a row writes of a case, and its id
Written(c) ==
    <<c.v["id"], c.v["client_name"], c.v["case_name"], c.v["case_type"], c.v["paralegal"],
      c.v["current_focus"], c.v["case_number"], c.v["stage"]>>

\* the case the line is for by the priority of the claim, 0 for none
Target(cases) ==
    IF SameNumber(cases) # {} THEN Least(SameNumber(cases))
    ELSE IF SameNames(cases) # {} THEN Least(SameNames(cases))
    ELSE 0

\* C26: a row is for the first case with its non-empty case_number, compared
\* without regard to case, even when another case has its names; failing that for
\* the first case with its client_name and case_name; failing that it creates a
\* case. A row that matches by case_number updates that case and adds none.
C26_LookupPriority ==
    OneRowImport =>
        LET old == StoredCases(arg.before)
            new == StoredCases(disk)
            target == Target(old)
        IN  IF target # 0
            THEN /\ resp.out.updated = 1 /\ resp.out.added = 0
                 /\ Len(new) = Len(old)
                 /\ new[target].v["client_name"].v = RowCell(K_client_name)
                 /\ new[target].v["id"] = old[target].v["id"]
                 /\ \A i \in DOMAIN old : i # target => Written(new[i]) = Written(old[i])
            ELSE /\ resp.out.updated = 0 /\ resp.out.added = 1
                 /\ Len(new) = Len(old) + 1
                 /\ \A i \in DOMAIN old : Written(new[i]) = Written(old[i])
                 /\ new[Len(new)].v["client_name"].v = RowCell(K_client_name)

\* the line A / b numbered k updated the second of the three cases, z / b
\* numbered K, though the first and the third case are a / b
C26_Witness ==
    /\ OneRowImport
    /\ arg.before = ThreeCases
    /\ RowCell(K_client_name) = N_A /\ RowCell(K_case_number) = <<"k">>
    /\ resp.out = [added |-> 0, updated |-> 1, errors |-> <<>>]
    /\ StoredCases(disk)[2].v["client_name"] = JStr(N_A)
    /\ StoredCases(disk)[2].v["case_number"] = JStr(<<"k">>)
    /\ StoredCases(disk)[1] = StoredCases(arg.before)[1]

\* ------------------------------------------------------------------ the status and stage of a row

\* the locked status the status cell of the line names, in whatever case, or None
IncomingLocked ==
    LET named == {x \in SPECIAL_STATUSES : Lower(x) = Lower(RowCell(K_status))}
    IN  IF named = {} THEN None ELSE Some(CHOOSE x \in named : TRUE)

\* the stage the stage cell of the line names, in whatever case, or None
IncomingStage ==
    LET named == {x \in Stage : Lower(x) = Lower(RowCell(K_stage))}
    IN  IF named = {} THEN None ELSE Some(CHOOSE x \in named : TRUE)

\* Active with a case number, Pre-Filing without
DerivedStatus(c) == IF NonBlank(c.v["case_number"]) THEN S_Active ELSE S_PreFiling

\* the case the line wrote: the target, or the new last case
CaseWritten ==
    IF Target(StoredCases(arg.before)) # 0
    THEN StoredCases(disk)[Target(StoredCases(arg.before))]
    ELSE StoredCases(disk)[Len(StoredCases(disk))]

\* C27: an import applies the incoming status only if it names a locked status;
\* otherwise the case keeps the locked status it had, or else gets the status
\* derived from its case_number. The incoming stage replaces the stage only if it
\* is recognized, and a new case gets Pre-filing otherwise.
C27_ImportStatusAndStage ==
    OneRowImport =>
        LET old == StoredCases(arg.before)
            target == Target(old)
            c == CaseWritten
        IN  /\ c.v["status"].v =
                  IF IncomingLocked # None THEN IncomingLocked[1]
                  ELSE IF target # 0 /\ old[target].v["status"].v \in SPECIAL_STATUSES
                       THEN old[target].v["status"].v
                  ELSE DerivedStatus(c)
            /\ c.v["stage"].v =
                  IF IncomingStage # None THEN IncomingStage[1]
                  ELSE IF target # 0 THEN old[target].v["stage"].v
                  ELSE S_PreFilingStage

\* the same on the stores that a load() leaves as they are
C27_OnSettledStore ==
    (arg # None /\ "csv" \in DOMAIN arg /\ load(arg.before, 1).disk = arg.before)
        => C27_ImportStatusAndStage

\* ------------------------------------------------------------------ the counts of an import

\* C29: every data row of an import is counted once, as added, updated or an
\* error; the store grows by exactly added cases; and a later row for a case that
\* an earlier row of the same import created counts as updated.
C29_RowsAccounted ==
    (resp.op = "import" /\ resp.code = 200) =>
        /\ resp.out.added + resp.out.updated + Len(resp.out.errors) = Len(arg.csv.rows)
        /\ Len(StoredCases(disk)) = Len(StoredCases(arg.before)) + resp.out.added
        /\ (/\ Len(arg.csv.rows) = 2 /\ arg.csv.rows[1] = arg.csv.rows[2]
            /\ AllNamed(arg.csv.header)
            /\ ~Blank(CellUnder(arg.csv.header, arg.csv.rows[1], K_client_name))
            /\ ~Blank(CellUnder(arg.csv.header, arg.csv.rows[1], K_case_name))
            /\ Target(StoredCases(arg.before)) = 0)
              => resp.out = [added |-> 1, updated |-> 1, errors |-> <<>>]

\* the line n / b numbered 9, twice, was imported into the store of three cases:
\* one case added, and the second line counted as an update of it
C29_Witness ==
    /\ resp.op = "import" /\ resp.code = 200
    /\ arg.before = ThreeCases
    /\ arg.csv = [header |-> CsvHeader,
                  rows |-> << << <<"n">>, N_b, T_PI, <<"9">>, <<>> >>,
                              << <<"n">>, N_b, T_PI, <<"9">>, <<>> >> >>]
    /\ resp.out = [added |-> 1, updated |-> 1, errors |-> <<>>]
    /\ Len(StoredCases(disk)) = 4

\* ------------------------------------------------------------------ archived cases

\* C30: the status of an archived case is left as it is by every automatic step:
\* a request that only loads the store (GET /api/cases/{case_id}, found or not)
\* leaves the stored status of every archived case unchanged.
C30_ArchivedStatusKept ==
    (resp.op = "get" /\ resp.code \in {200, 404}) =>
        \A i \in DOMAIN StoredCases(arg.before) :
            StoredCases(arg.before)[i].v["archived"] = JBool(TRUE)
                => /\ i \in DOMAIN StoredCases(disk)
                   /\ StoredCases(disk)[i].v["status"]
                        = StoredCases(arg.before)[i].v["status"]
====
